---- MODULE Spec2Model ----
(***************************************************************************)
(* A model of the BEJ (Binary Encoded JSON) codec: the packed dictionary   *)
(* and its cursor (bej_dictionary.c), the encoder (bej_encode.c), the      *)
(* decoder (bej_decode.c) and the JSON text parser and comparison (json.c) *)
(* that bej_decode_buffer and the round-trip test run on the decoder's     *)
(* output.                                                                 *)
(*                                                                         *)
(* Bytes and characters are naturals 0..255.  A C buffer is a sequence;    *)
(* the byte at C offset o of buffer b is b[o + 1].  A C string is the      *)
(* sequence of its bytes without the terminating NUL.                      *)
(***************************************************************************)
EXTENDS Integers, Sequences, FiniteSets, TLC

(***************************************************************************)
(* Program constants.                                                      *)
(***************************************************************************)
BEJ_FORMAT_SET == 0
BEJ_FORMAT_ARRAY == 1
BEJ_FORMAT_NULL == 2
BEJ_FORMAT_INTEGER == 3
BEJ_FORMAT_ENUM == 4
BEJ_FORMAT_STRING == 5
BEJ_FORMAT_REAL == 6
BEJ_FORMAT_BOOLEAN == 7

BEJ_DICTIONARY_HEADER_SIZE == 12
BEJ_DICTIONARY_ENTRY_SIZE == 10
BEJ_OFFSET_ENTRY_COUNT == 2
BEJ_OFFSET_ENTRIES_START == 12
BEJ_ENTRY_OFFSET_FORMAT_FLAGS == 0
BEJ_ENTRY_OFFSET_SEQUENCE == 1
BEJ_ENTRY_OFFSET_CHILD_POINTER == 3
BEJ_ENTRY_OFFSET_CHILD_COUNT == 5
BEJ_ENTRY_OFFSET_NAME_LEN == 7
BEJ_ENTRY_OFFSET_NAME_OFFSET == 8
BEJ_CHILD_COUNT_WILDCARD == 65535

JSON_NULL == 0
JSON_BOOL == 1
JSON_NUMBER == 2
JSON_STRING == 3
JSON_ARRAY == 4
JSON_OBJECT == 5

\* uint16_t conversion of a size_t or uint64_t value (bej_encode.c:309, :191)
U16(v) == v % 65536

\* the characters the codec and the JSON text layer give a meaning to
Ascii ==
  [c \in {"{", "}", "[", "]", "\"", "\\", ",", ":", "@", "-", "0", "?", "/",
          "t", "r", "u", "e", "f", "a", "l", "s", "n", "b", " "} |->
     CASE c = "{" -> 123 [] c = "}" -> 125 [] c = "[" -> 91 [] c = "]" -> 93
       [] c = "\"" -> 34 [] c = "\\" -> 92 [] c = "," -> 44 [] c = ":" -> 58
       [] c = "@" -> 64 [] c = "-" -> 45 [] c = "0" -> 48 [] c = "?" -> 63
       [] c = "/" -> 47 [] c = "t" -> 116 [] c = "r" -> 114 [] c = "u" -> 117
       [] c = "e" -> 101 [] c = "f" -> 102 [] c = "a" -> 97 [] c = "l" -> 108
       [] c = "s" -> 115 [] c = "n" -> 110 [] c = "b" -> 98 [] c = " " -> 32]

(***************************************************************************)
(* Dictionary model (bej_dictionary.h, bej_dictionary.c).                  *)
(* A dictionary pointer is NULL or points at {bytes, size}.                *)
(***************************************************************************)
NULL == [null |-> TRUE, bytes |-> <<>>, size |-> 0]

bej_dictionary_t(b) == [null |-> FALSE, bytes |-> b, size |-> Len(b)]

read_u16(bytes, o) == bytes[o + 1] + 256 * bytes[o + 2]

validate_dictionary_header(dict) == dict.size >= BEJ_DICTIONARY_HEADER_SIZE

read_dictionary_header(dict) ==
  /\ validate_dictionary_header(dict)
  /\ BEJ_OFFSET_ENTRIES_START
       + read_u16(dict.bytes, BEJ_OFFSET_ENTRY_COUNT) * BEJ_DICTIONARY_ENTRY_SIZE
       <= dict.size

\* a file is absent or holds bytes; the result is NULL or the dictionary
bej_dictionary_load(file) ==
  IF ~file.present THEN NULL
  ELSE IF Len(file.bytes) <= 0 THEN NULL
  ELSE IF ~validate_dictionary_header(bej_dictionary_t(file.bytes)) THEN NULL
  ELSE bej_dictionary_t(file.bytes)

\* a cursor: child_count = -1 means "until the end of the buffer"
bej_dict_stream_init(dict) ==
  LET ok == (~dict.null) /\ validate_dictionary_header(dict)
                         /\ read_dictionary_header(dict)
  IN [null |-> dict.null, bytes |-> dict.bytes, size |-> dict.size,
      index |-> IF ok THEN BEJ_OFFSET_ENTRIES_START ELSE 0,
      child_count |-> IF ok THEN 1 ELSE 0,
      current_entry |-> 0]

bej_dict_stream_init_subset(dict, offset, child_count) ==
  [null |-> dict.null, bytes |-> dict.bytes, size |-> dict.size,
   index |-> offset,
   child_count |-> IF child_count = BEJ_CHILD_COUNT_WILDCARD THEN -1 ELSE child_count,
   current_entry |-> 0]

\* a cursor that still has an entry when all its children were yielded
has_entry_inclusive(s) ==
  IF s.null THEN FALSE
  ELSE IF s.child_count < 0 THEN s.index + BEJ_DICTIONARY_ENTRY_SIZE <= s.size
  ELSE s.current_entry <= s.child_count

bej_dict_stream_has_entry(s) ==
  IF s.null THEN FALSE
  ELSE IF s.child_count < 0 THEN s.index + BEJ_DICTIONARY_ENTRY_SIZE <= s.size
  ELSE s.current_entry < s.child_count

\* the NUL-terminated string that starts at C offset off of the buffer
RECURSIVE c_string(_, _)
c_string(bytes, off) ==
  IF off >= Len(bytes) \/ bytes[off + 1] = 0 THEN <<>>
  ELSE <<bytes[off + 1]>> \o c_string(bytes, off + 1)

NoEntry ==
  [format |-> 0, flags |-> 0, sequence |-> 0, child_pointer |-> 0,
   child_count |-> 0, has_name |-> FALSE, name |-> <<>>, at |-> 0]

\* the entry decoded from the 10 bytes at s.index; name is a pointer into the
\* buffer (has_name) or NULL; "at" records the offset the entry was read from
bej_dict_entry_at(s) ==
  LET o == s.index
      format_flags == s.bytes[o + BEJ_ENTRY_OFFSET_FORMAT_FLAGS + 1]
      name_length == s.bytes[o + BEJ_ENTRY_OFFSET_NAME_LEN + 1]
      name_offset == read_u16(s.bytes, o + BEJ_ENTRY_OFFSET_NAME_OFFSET)
      named == name_length > 0 /\ name_offset < s.size
  IN [format |-> format_flags \div 16,
      flags |-> format_flags % 16,
      sequence |-> read_u16(s.bytes, o + BEJ_ENTRY_OFFSET_SEQUENCE),
      child_pointer |-> read_u16(s.bytes, o + BEJ_ENTRY_OFFSET_CHILD_POINTER),
      child_count |-> read_u16(s.bytes, o + BEJ_ENTRY_OFFSET_CHILD_COUNT),
      has_name |-> named,
      name |-> IF named THEN c_string(s.bytes, name_offset) ELSE <<>>,
      at |-> o]

\* returns whether an entry was produced, the entry and the advanced cursor
bej_dict_stream_next(s) ==
  IF ~bej_dict_stream_has_entry(s) THEN [ok |-> FALSE, entry |-> NoEntry, s |-> s]
  ELSE IF s.index + BEJ_DICTIONARY_ENTRY_SIZE > s.size
    THEN [ok |-> FALSE, entry |-> NoEntry, s |-> s]
  ELSE [ok |-> TRUE,
        entry |-> bej_dict_entry_at(s),
        s |-> [s EXCEPT !.index = s.index + BEJ_DICTIONARY_ENTRY_SIZE,
                        !.current_entry = IF s.child_count >= 0
                                          THEN s.current_entry + 1
                                          ELSE s.current_entry]]

RECURSIVE find_by_name_loop(_, _)
find_by_name_loop(stream, name) ==
  LET step(r) ==
        IF ~r.ok THEN [ok |-> FALSE, entry |-> NoEntry]
        ELSE IF r.entry.has_name /\ r.entry.name = name
          THEN [ok |-> TRUE, entry |-> r.entry]
        ELSE find_by_name_loop(r.s, name)
  IN step(bej_dict_stream_next(stream))

bej_dict_find_child_by_name(dict, offset, child_count, name) ==
  IF dict.null THEN [ok |-> FALSE, entry |-> NoEntry]
  ELSE find_by_name_loop(bej_dict_stream_init_subset(dict, offset, child_count), name)

RECURSIVE find_by_seq_loop(_, _)
find_by_seq_loop(stream, seq) ==
  LET step(r) ==
        IF ~r.ok THEN [ok |-> FALSE, entry |-> NoEntry]
        ELSE IF r.entry.sequence = seq THEN [ok |-> TRUE, entry |-> r.entry]
        ELSE find_by_seq_loop(r.s, seq)
  IN step(bej_dict_stream_next(stream))

get_entry_by_seq(dict, child_ptr, child_count, seq) ==
  IF dict.null THEN [ok |-> FALSE, entry |-> NoEntry]
  ELSE find_by_seq_loop(bej_dict_stream_init_subset(dict, child_ptr, child_count), seq)

(***************************************************************************)
(* Dictionary files used as inputs.  A file is a 12-byte header, a table   *)
(* of 10-byte entries and the NUL-terminated names (bej_dictionary.h).     *)
(***************************************************************************)
LE16(v) == <<v % 256, v \div 256>>

RECURSIVE Flatten(_)
Flatten(ss) == IF ss = <<>> THEN <<>> ELSE Head(ss) \o Flatten(Tail(ss))

RECURSIVE NameOffset(_, _, _)
NameOffset(entries, i, base) ==
  IF i = 1 THEN base
  ELSE NameOffset(entries, i - 1, base) + Len(entries[i - 1].name) + 1

\* header bytes, then the entries, then their names; an entry's name_length
\* counts the terminator
DictionaryFile(header, entries) ==
  LET base == Len(header) + BEJ_DICTIONARY_ENTRY_SIZE * Len(entries)
      Raw(i) == LET e == entries[i]
                IN <<e.format * 16>> \o LE16(e.sequence) \o LE16(e.child_pointer)
                     \o LE16(e.child_count) \o <<Len(e.name) + 1>>
                     \o LE16(NameOffset(entries, i, base))
  IN header
     \o Flatten([i \in 1..Len(entries) |-> Raw(i)])
     \o Flatten([i \in 1..Len(entries) |-> entries[i].name \o <<0>>])

DictHeader(entry_count) == <<0, 0>> \o LE16(entry_count) \o <<0, 0, 0, 0, 0, 0, 0, 0>>

DE(format, sequence, child_pointer, child_count, name) ==
  [format |-> format, sequence |-> sequence, child_pointer |-> child_pointer,
   child_count |-> child_count, name |-> name]

\* names, as byte strings
NameR == <<82>>
NameX == <<88>>
NameS == <<83>>
NameB == <<66>>
NameN == <<78>>
NameE == <<69>>
NameA == <<65>>
NameO == <<79>>
NameF == <<70>>
NameZ == <<90>>
NameAtC == <<Ascii["@"], 99>>
NameAtO == <<Ascii["@"], 111>>
StrA == <<Ascii["a"]>>
StrB == <<Ascii["b"]>>
StrQuote == <<Ascii["\""]>>

\* schema dictionary: root R (a SET) at 12; its eight children at 22..101;
\* the values of enum E at 102, 112; the element archetype of array A at 122;
\* the children of set O at 132, 142
SchemaEntries ==
  << DE(BEJ_FORMAT_SET, 0, 22, 8, NameR),
     DE(BEJ_FORMAT_INTEGER, 0, 0, 0, NameX),
     DE(BEJ_FORMAT_STRING, 1, 0, 0, NameS),
     DE(BEJ_FORMAT_BOOLEAN, 2, 0, 0, NameB),
     DE(BEJ_FORMAT_NULL, 3, 0, 0, NameN),
     DE(BEJ_FORMAT_ENUM, 4, 102, 2, NameE),
     DE(BEJ_FORMAT_ARRAY, 5, 122, 1, NameA),
     DE(BEJ_FORMAT_SET, 6, 132, 2, NameO),
     DE(BEJ_FORMAT_REAL, 7, 0, 0, NameF),
     DE(BEJ_FORMAT_STRING, 0, 0, 0, StrB),
     DE(BEJ_FORMAT_STRING, 2, 0, 0, StrA),
     DE(BEJ_FORMAT_STRING, 0, 0, 0, NameA),
     DE(BEJ_FORMAT_INTEGER, 0, 0, 0, NameX),
     DE(BEJ_FORMAT_BOOLEAN, 1, 0, 0, NameB) >>

SchemaDict == bej_dictionary_t(DictionaryFile(DictHeader(Len(SchemaEntries)), SchemaEntries))

\* annotation dictionary in the published layout: root at 12, its children @c
\* and @o at 22 and 32, the child of @o at 42
AnnotEntries ==
  << DE(BEJ_FORMAT_SET, 0, 22, 2, NameA),
     DE(BEJ_FORMAT_INTEGER, 5, 0, 0, NameAtC),
     DE(BEJ_FORMAT_SET, 6, 42, 1, NameAtO),
     DE(BEJ_FORMAT_INTEGER, 0, 0, 0, NameX) >>

AnnotDict == bej_dictionary_t(DictionaryFile(DictHeader(Len(AnnotEntries)), AnnotEntries))

\* a loadable file whose 10-byte records lie at offsets 10, 20, 30 (its header
\* declares no entries): the records a scan in 10-byte steps from offset 0
\* decodes as @c, @o and the child of @o
AnnotAt0Entries ==
  << DE(BEJ_FORMAT_INTEGER, 5, 0, 0, NameAtC),
     DE(BEJ_FORMAT_SET, 6, 30, 1, NameAtO),
     DE(BEJ_FORMAT_INTEGER, 0, 0, 0, NameX) >>

AnnotDictAt0 ==
  bej_dictionary_t(DictionaryFile(<<0, 0, 0, 0, 0, 0, 0, 0, 0, 0>>, AnnotAt0Entries))

\* the records of AnnotAt0Entries, the child pointer of @o being 22: the
\* offset of an entry of the schema dictionary, between two records here
AnnotCrossEntries ==
  << DE(BEJ_FORMAT_INTEGER, 5, 0, 0, NameAtC),
     DE(BEJ_FORMAT_SET, 6, 22, 1, NameAtO),
     DE(BEJ_FORMAT_INTEGER, 0, 0, 0, NameX) >>

AnnotDictCross ==
  bej_dictionary_t(DictionaryFile(<<0, 0, 0, 0, 0, 0, 0, 0, 0, 0>>, AnnotCrossEntries))

NameL == <<76>>

\* schema dictionary with an array of sets: root R at 12, its child L (an
\* ARRAY) at 22, the element archetype of L (a SET) at 32, the child X of
\* the archetype at 42
AnonEntries ==
  << DE(BEJ_FORMAT_SET, 0, 22, 1, NameR),
     DE(BEJ_FORMAT_ARRAY, 0, 32, 1, NameL),
     DE(BEJ_FORMAT_SET, 0, 42, 1, <<>>),
     DE(BEJ_FORMAT_INTEGER, 0, 0, 0, NameX) >>

\* the file with the name length of the entry at offset "at" set to 0: an
\* entry without a name, as the element archetype of an array is
Anonymous(bytes, at) == [bytes EXCEPT ![at + BEJ_ENTRY_OFFSET_NAME_LEN + 1] = 0]

SchemaAnon ==
  bej_dictionary_t(Anonymous(DictionaryFile(DictHeader(Len(AnonEntries)), AnonEntries), 32))

(***************************************************************************)
(* JSON value tree (json.h).  A number is a double; the model holds twice  *)
(* its value so that halves are representable: number2 = 2 * data.number.  *)
(* The items of an array are values, the entries of an object are          *)
(* [key, value] pairs; both live in "kids".                                *)
(***************************************************************************)
JV(type, boolean, number2, string, kids) ==
  [type |-> type, boolean |-> boolean, number2 |-> number2, string |-> string,
   kids |-> kids]

JNull == JV(JSON_NULL, FALSE, 0, <<>>, <<>>)
JBool(b) == JV(JSON_BOOL, b, 0, <<>>, <<>>)
JNum(i) == JV(JSON_NUMBER, FALSE, 2 * i, <<>>, <<>>)
JHalves(h) == JV(JSON_NUMBER, FALSE, h, <<>>, <<>>)
JStr(str) == JV(JSON_STRING, FALSE, 0, str, <<>>)
JArr(items) == JV(JSON_ARRAY, FALSE, 0, <<>>, items)
JObj(entries) == JV(JSON_OBJECT, FALSE, 0, <<>>, entries)
KV(key, value) == [key |-> key, value |-> value]

\* (int64_t)json_value->data.number: truncation toward zero
int64_of_number(number2) ==
  IF number2 >= 0 THEN number2 \div 2 ELSE -((-number2) \div 2)

(***************************************************************************)
(* Encoder primitives (bej_encode.c).  Each returns the bytes it writes.   *)
(***************************************************************************)
RECURSIVE le_bytes(_)
le_bytes(v) == IF v = 0 THEN <<>> ELSE <<v % 256>> \o le_bytes(v \div 256)

\* an NNINT image in which zero takes no value byte
pack_nnint_bare_zero(value) == <<Len(le_bytes(value))>> \o le_bytes(value)

pack_nnint(value) ==
  LET image(tmp) == <<Len(tmp)>> \o tmp
  IN IF value = 0 THEN <<1, 0>> ELSE image(le_bytes(value))

pack_sfl(seq_with_selector, format, len) ==
  pack_nnint(seq_with_selector) \o <<(format * 16) % 256>> \o pack_nnint(len)

\* byte i of the two's-complement form: (u >> (8 * i)) & 0xFF
RECURSIVE int64_byte(_, _)
int64_byte(value, i) ==
  IF i = 0 THEN value % 256 ELSE int64_byte(value \div 256, i - 1)

\* the width that drops the leading 00 or FF bytes without regard to the sign
\* bit of the byte below
RECURSIVE unsigned_width(_, _, _)
unsigned_width(buf, value, num) ==
  IF num > 1 /\ buf[num] = (IF value >= 0 THEN 0 ELSE 255)
  THEN unsigned_width(buf, value, num - 1)
  ELSE num

RECURSIVE integer_width(_, _, _)
integer_width(buf, value, num) ==
  IF num > 1
     /\ \/ value >= 0 /\ buf[num] = 0 /\ buf[num - 1] < 128
        \/ value < 0 /\ buf[num] = 255 /\ buf[num - 1] >= 128
  THEN integer_width(buf, value, num - 1)
  ELSE num

pack_integer_value(value) ==
  LET trimmed(buf, num) == pack_nnint(num) \o SubSeq(buf, 1, num)
      filled(buf) == trimmed(buf, integer_width(buf, value, 8))
  IN filled([i \in 1..8 |-> int64_byte(value, i - 1)])

pack_string_value(str) == pack_nnint(Len(str) + 1) \o str \o <<0>>

pack_boolean_value(value) == pack_nnint(1) \o <<IF value THEN 1 ELSE 0>>

\* an enum writer that takes sequence 0 for a string naming no child
pack_enum_value_default(dict, entry, enum_name) ==
  LET found(f) ==
        [ok |-> TRUE,
         out |-> IF ~f.ok \/ f.entry.sequence = 0 THEN <<2, 1, 0>>
                 ELSE pack_nnint(1 + Len(le_bytes(f.entry.sequence)))
                        \o <<Len(le_bytes(f.entry.sequence))>>
                        \o le_bytes(f.entry.sequence)]
  IN found(find_by_name_loop(
             bej_dict_stream_init_subset(dict, entry.child_pointer, entry.child_count),
             enum_name))

\* the 16-bit sequence of the first child named enum_name, written as its own
\* NNINT image (tmp) behind the NNINT of that image's size
pack_enum_value(dict, entry, enum_name) ==
  LET written(tmp) == pack_nnint(Len(tmp)) \o tmp
      image(b) == <<Len(b)>> \o b
      found(f) ==
        IF ~f.ok THEN [ok |-> FALSE, out |-> <<>>]
        ELSE [ok |-> TRUE,
              out |-> written(IF f.entry.sequence = 0 THEN <<1, 0>>
                              ELSE image(le_bytes(f.entry.sequence)))]
  IN found(find_by_name_loop(
             bej_dict_stream_init_subset(dict, entry.child_pointer, entry.child_count),
             enum_name))

(***************************************************************************)
(* Encoder (bej_encode.c).  A call returns                                 *)
(*   ok   its return value,                                                *)
(*   out  the bytes it wrote to its output stream,                         *)
(*   log  one record per SFL header written, in the order of writing,      *)
(*   ub   whether it ran into undefined behaviour (then the rest is void), *)
(*   tmp  the calls of tmpfile() and fclose() it made, in order, between   *)
(*        the entry and the return of each frame that owns a scratch file. *)
(* A failing call keeps in out the bytes it had written before it failed.  *)
(***************************************************************************)
EncFail(ub) == [ok |-> FALSE, out |-> <<>>, log |-> <<>>, ub |-> ub, tmp |-> <<>>]

\* a call that failed after it had written out and made the calls tmp
EncStop(ub, out, tmp) == [ok |-> FALSE, out |-> out, log |-> <<>>, ub |-> ub, tmp |-> tmp]

EncDone == [ok |-> TRUE, out |-> <<>>, log |-> <<>>, ub |-> FALSE, tmp |-> <<>>]

\* a frame that leaves its scratch file open when the payload failed
scratch_frame_leaking(success, inner) ==
  <<"enter", "tmpfile">> \o inner
    \o (IF success THEN <<"fclose", "return">> ELSE <<"return">>)

\* the frame of encode_value, and of bej_encode_stream behind its checks: it
\* opens a scratch file, has the payload written (inner), and closes the file
\* before either return
scratch_frame(success, inner) ==
  <<"enter", "tmpfile">> \o inner
    \o (IF success THEN <<"fclose", "return">> ELSE <<"fclose", "return">>)

IsAt(str) == Len(str) > 0 /\ str[1] = Ascii["@"]

\* the record of one SFL written by encode_value; encode_properties fills in
\* the key and the lookup that led to the entry
SflEvent(entry, selector, seq, payload_size) ==
  [kind |-> "element", key |-> <<>>, dict |-> "none", child_ptr |-> 0, child_cnt |-> 0,
   parent_ptr |-> 0, parent_cnt |-> 0,
   entry_at |-> entry.at, entry_sequence |-> entry.sequence, format |-> entry.format,
   selector |-> selector, seq_with_selector |-> seq, payload_size |-> payload_size]

\* the name lookup both loops of encode_properties make for a key
encode_lookup(key, parent_entry, schema_dict, annot_dict) ==
  LET found(selector, child_ptr, child_cnt, f) ==
        [ok |-> f.ok, entry |-> f.entry, selector |-> selector,
         dict |-> IF selector = 1 THEN "annot" ELSE "schema",
         child_ptr |-> child_ptr, child_cnt |-> child_cnt]
      search(selector, dict_to_search, child_ptr, child_cnt) ==
        found(selector, child_ptr, child_cnt,
              IF dict_to_search.null THEN [ok |-> FALSE, entry |-> NoEntry]
              ELSE bej_dict_find_child_by_name(dict_to_search, child_ptr, child_cnt, key))
  IN IF IsAt(key)
     THEN search(1, annot_dict, 0, IF annot_dict.null THEN 0 ELSE U16(annot_dict.size))
     ELSE search(0, schema_dict, parent_entry.child_pointer, parent_entry.child_count)

\* json_array->data.array.count as encode_array_payload reads it, whatever the
\* value's type: an object's count shares the field; the other types leave the
\* calloc'ed bytes of the union zero (json.c:29)
array_count_field(json_value) ==
  IF json_value.type \in {JSON_ARRAY, JSON_OBJECT} THEN Len(json_value.kids) ELSE 0

RECURSIVE encode_value(_, _, _, _, _)
RECURSIVE encode_array_element(_, _, _, _, _, _)
RECURSIVE encode_array_elements(_, _, _, _, _, _)
RECURSIVE encode_array_payload(_, _, _, _)
RECURSIVE encode_properties_from(_, _, _, _, _)
RECURSIVE encode_properties(_, _, _, _)

\* r and rest with the bytes and records of rest in front
EncThenInFront(r, rest) ==
  IF ~r.ok THEN EncStop(r.ub, r.out, r.tmp)
  ELSE IF ~rest.ok THEN EncStop(rest.ub, rest.out \o r.out, r.tmp \o rest.tmp)
  ELSE [ok |-> TRUE, out |-> rest.out \o r.out, log |-> rest.log \o r.log, ub |-> FALSE,
        tmp |-> r.tmp \o rest.tmp]

\* r, then rest unless r failed: the bytes and SFL records of both
EncThen(r, rest) ==
  IF ~r.ok THEN EncStop(r.ub, r.out, r.tmp)
  ELSE IF ~rest.ok THEN EncStop(rest.ub, r.out \o rest.out, r.tmp \o rest.tmp)
  ELSE [ok |-> TRUE, out |-> r.out \o rest.out, log |-> r.log \o rest.log, ub |-> FALSE,
        tmp |-> r.tmp \o rest.tmp]

\* the body of the loop of encode_array_payload for the item at index i:
\* element_entry.sequence is a uint16_t
encode_array_element(i, array_entry, element_entry, item, schema_dict, annot_dict) ==
  encode_value([element_entry EXCEPT !.sequence = U16(i)],
               IF IsAt(array_entry.name) THEN 1 ELSE 0,
               item, schema_dict, annot_dict)

\* the loop of encode_array_payload from element i (0-based) on
encode_array_elements(i, array_entry, element_entry, json_array, schema_dict, annot_dict) ==
  IF i >= array_count_field(json_array) THEN EncDone
  ELSE IF json_array.type # JSON_ARRAY THEN EncFail(TRUE)
  ELSE EncThen(encode_array_element(i, array_entry, element_entry,
                                    json_array.kids[i + 1], schema_dict, annot_dict),
               encode_array_elements(i + 1, array_entry, element_entry, json_array,
                                     schema_dict, annot_dict))

encode_array_payload(array_entry, json_array, schema_dict, annot_dict) ==
  LET counted(r) == [r EXCEPT !.out = pack_nnint(array_count_field(json_array)) \o r.out]
      elements(n) ==
        IF ~n.ok THEN EncFail(FALSE)
        ELSE counted(encode_array_elements(0, array_entry, n.entry, json_array,
                                           schema_dict, annot_dict))
  IN IF ~array_entry.has_name THEN EncFail(TRUE)
     ELSE elements(bej_dict_stream_next(
                     bej_dict_stream_init_subset(
                       IF IsAt(array_entry.name) THEN annot_dict ELSE schema_dict,
                       array_entry.child_pointer, array_entry.child_count)))

encode_set_payload(set_entry, json_object, schema_dict, annot_dict) ==
  encode_properties(json_object, set_entry, schema_dict, annot_dict)

\* the size of a scratch payload measured before anything was written to it
payload_size_unwritten(payload) == 0

\* the size of the scratch payload as encode_value measures it
payload_size_of(payload) == Len(payload)

\* ((uint64_t)entry->sequence << 1) | selector
\* the shifted sequence number with the selector bit left clear
seq_without_selector(entry, selector) == 2 * entry.sequence

seq_with_selector(entry, selector) == 2 * entry.sequence + selector

encode_value(entry, selector, json_value, schema_dict, annot_dict) ==
  LET plain(okv, bytes) ==
        [ok |-> okv, out |-> bytes, log |-> <<>>, ub |-> FALSE, tmp |-> <<>>]
      packed(e) == plain(e.ok, e.out)
      written(p, payload_size, seq) ==
        [ok |-> TRUE,
         out |-> pack_sfl(seq, entry.format, payload_size) \o p.out,
         log |-> <<SflEvent(entry, selector, seq, payload_size)>> \o p.log,
         ub |-> FALSE,
         tmp |-> scratch_frame(TRUE, p.tmp)]
      framed(p) ==
        IF ~p.ok THEN EncStop(p.ub, <<>>, scratch_frame(FALSE, p.tmp))
        ELSE written(p, payload_size_of(p.out), seq_with_selector(entry, selector))
  IN framed(
       CASE entry.format = BEJ_FORMAT_SET ->
              encode_set_payload(entry, json_value, schema_dict, annot_dict)
         [] entry.format = BEJ_FORMAT_ARRAY ->
              encode_array_payload(entry, json_value, schema_dict, annot_dict)
         [] entry.format = BEJ_FORMAT_INTEGER ->
              IF json_value.type = JSON_NUMBER
              THEN plain(TRUE, pack_integer_value(int64_of_number(json_value.number2)))
              ELSE plain(FALSE, <<>>)
         [] entry.format = BEJ_FORMAT_STRING ->
              IF json_value.type = JSON_STRING
              THEN plain(TRUE, pack_string_value(json_value.string))
              ELSE plain(FALSE, <<>>)
         [] entry.format = BEJ_FORMAT_BOOLEAN ->
              IF json_value.type = JSON_BOOL
              THEN plain(TRUE, pack_boolean_value(json_value.boolean))
              ELSE plain(FALSE, <<>>)
         [] entry.format = BEJ_FORMAT_ENUM ->
              IF json_value.type = JSON_STRING
              THEN packed(pack_enum_value(IF selector # 0 THEN annot_dict ELSE schema_dict,
                                          entry, json_value.string))
              ELSE plain(FALSE, <<>>)
         [] entry.format = BEJ_FORMAT_NULL -> plain(TRUE, <<>>)
         [] OTHER -> plain(FALSE, <<>>))

\* the number of keys from pair i on, resolved or not
listed_count(i, json_object, parent_entry, schema_dict, annot_dict) ==
  Len(json_object.kids) + 1 - i

\* the number of keys the first loop of encode_properties resolves
RECURSIVE resolved_count(_, _, _, _, _)
resolved_count(i, json_object, parent_entry, schema_dict, annot_dict) ==
  IF i > Len(json_object.kids) THEN 0
  ELSE (IF encode_lookup(json_object.kids[i].key, parent_entry, schema_dict, annot_dict).ok
        THEN 1 ELSE 0)
       + resolved_count(i + 1, json_object, parent_entry, schema_dict, annot_dict)

\* the second loop of encode_properties from pair i (1-based) on; the SFL
\* record of a pair gets the pair's key and the lookup that found its entry
encode_properties_from(i, json_object, parent_entry, schema_dict, annot_dict) ==
  LET named(l, r) ==
        IF l.ok /\ r.ok
        THEN [r EXCEPT !.log = <<[r.log[1] EXCEPT !.kind = "property",
                                    !.key = json_object.kids[i].key,
                                    !.dict = l.dict, !.child_ptr = l.child_ptr,
                                    !.child_cnt = l.child_cnt,
                                    !.parent_ptr = parent_entry.child_pointer,
                                    !.parent_cnt = parent_entry.child_count]>>
                         \o Tail(r.log)]
        ELSE r
      looked(l) ==
        EncThen(named(l, IF l.ok
                         THEN encode_value(l.entry, l.selector, json_object.kids[i].value,
                                           schema_dict, annot_dict)
                         ELSE EncDone),
                encode_properties_from(i + 1, json_object, parent_entry, schema_dict,
                                       annot_dict))
  IN IF i > Len(json_object.kids) THEN EncDone
     ELSE looked(encode_lookup(json_object.kids[i].key, parent_entry, schema_dict,
                               annot_dict))

encode_properties(json_object, parent_entry, schema_dict, annot_dict) ==
  LET counted(r) ==
        [r EXCEPT !.out = pack_nnint(resolved_count(1, json_object, parent_entry,
                                                    schema_dict, annot_dict))
                          \o r.out]
  IN IF json_object.type # JSON_OBJECT THEN EncFail(FALSE)
     ELSE counted(encode_properties_from(1, json_object, parent_entry, schema_dict,
                                         annot_dict))

BEJ_HEADER == <<0, 240, 241, 241, 0, 0, 0>>

\* the scratch payload copied to the sink whether or not it was complete
copied_unchecked(p) == pack_sfl(0, BEJ_FORMAT_SET, payload_size_of(p.out)) \o p.out

\* what bej_encode_stream writes to output_stream behind the file header once
\* encode_properties has returned p: nothing when it failed, else the outer
\* SFL and the bytes of the scratch payload
copied_payload(p) ==
  IF ~p.ok THEN <<>>
  ELSE pack_sfl(0, BEJ_FORMAT_SET, payload_size_of(p.out)) \o p.out

\* sink: what reaches output_stream, on success and on failure alike
bej_encode_stream(json_data, schema_dict, annot_dict) ==
  LET payload(p) ==
        [ok |-> p.ok,
         sink |-> BEJ_HEADER \o copied_payload(p),
         log |-> IF p.ok THEN p.log ELSE <<>>,
         ub |-> p.ub,
         tmp |-> scratch_frame(p.ok, p.tmp)]
      rooted(root) ==
        IF ~root.ok
        THEN [ok |-> FALSE, sink |-> BEJ_HEADER, log |-> <<>>, ub |-> FALSE,
              tmp |-> <<"enter", "return">>]
        ELSE payload(encode_properties(json_data, root.entry, schema_dict, annot_dict))
  IN IF schema_dict.null
     THEN [ok |-> FALSE, sink |-> <<>>, log |-> <<>>, ub |-> FALSE,
           tmp |-> <<"enter", "return">>]
     ELSE rooted(bej_dict_stream_next(bej_dict_stream_init(schema_dict)))

(***************************************************************************)
(* Decoder (bej_decode.c).  The input stream is the byte buffer "in" with  *)
(* a read position; a reader returns its success, the position it leaves   *)
(* the stream at (on failure too: callers that drop the failure go on      *)
(* reading from there) and what it produced.                               *)
(***************************************************************************)
Min(a, b) == IF a < b THEN a ELSE b

\* The numbers of the model are narrower than uint64_t: a number read from
\* more than three significant bytes is marked wide and stands as 0; the
\* streams the decoder is run on are those on which it reads no wide number.
wide_bytes(bytes) == \E i \in 4..Len(bytes) : bytes[i] # 0

\* the bytes read with the first byte as the most significant, the last
\* three of them when there are more
RECURSIVE be_value(_)
be_value(bytes) ==
  IF bytes = <<>> \/ wide_bytes(bytes) THEN 0
  ELSE IF Len(bytes) > 3 THEN be_value(SubSeq(bytes, Len(bytes) - 2, Len(bytes)))
  ELSE bytes[Len(bytes)] + 256 * be_value(SubSeq(bytes, 1, Len(bytes) - 1))

RECURSIVE le_value(_)
le_value(bytes) ==
  IF bytes = <<>> \/ wide_bytes(bytes) THEN 0
  ELSE Head(bytes) + 256 * le_value(Tail(bytes))

\* a read that hands out the bytes and leaves the stream where it was
fread_in_place(in, pos, n) ==
  LET obtained(got) ==
        [bytes |-> SubSeq(in, pos + 1, pos + got), pos |-> pos, full |-> got = n]
  IN obtained(Min(n, Len(in) - pos))

\* fread(dst, 1, n, stream): the bytes obtained and the position afterwards
fread(in, pos, n) ==
  LET obtained(got) ==
        [bytes |-> SubSeq(in, pos + 1, pos + got), pos |-> pos + got, full |-> got = n]
  IN obtained(Min(n, Len(in) - pos))

unpack_nnint(in, pos) ==
  LET none(p) == [ok |-> FALSE, value |-> 0, pos |-> p, wide |-> FALSE]
      value(b) ==
        IF ~b.full THEN none(b.pos)
        ELSE [ok |-> TRUE, value |-> le_value(b.bytes), pos |-> b.pos,
              wide |-> wide_bytes(b.bytes)]
      width(l) ==
        IF ~l.full THEN none(l.pos)
        ELSE IF l.bytes[1] > 8 THEN none(l.pos)
        ELSE value(fread(in, l.pos, l.bytes[1]))
  IN width(fread(in, pos, 1))

unpack_sfl(in, pos) ==
  LET bad(p, w) == [ok |-> FALSE, seq |-> 0, format |-> 0, length |-> 0, pos |-> p,
                    wide |-> w]
      len(s, f, l) ==
        IF ~l.ok THEN bad(l.pos, s.wide)
        ELSE [ok |-> TRUE, seq |-> s.value, format |-> f.bytes[1] \div 16,
              length |-> l.value, pos |-> l.pos, wide |-> s.wide \/ l.wide]
      fmt(s, f) == IF ~f.full THEN bad(f.pos, s.wide) ELSE len(s, f, unpack_nnint(in, f.pos))
      seq(s) == IF ~s.ok THEN bad(s.pos, FALSE) ELSE fmt(s, fread(in, s.pos, 1))
  IN seq(unpack_nnint(in, pos))

decode_sequence_number(seq) == [sequence_num |-> seq \div 2, selector |-> seq % 2]

\* printf("%s"): the text of a C string
decode_name(entry) ==
  IF entry.has_name THEN <<Ascii["\""]>> \o entry.name \o <<Ascii["\""], Ascii[":"]>>
  ELSE <<>>

\* printf("%" PRId64)
RECURSIVE decimal_digits(_)
decimal_digits(n) ==
  IF n < 10 THEN <<Ascii["0"] + n>>
  ELSE decimal_digits(n \div 10) \o <<Ascii["0"] + (n % 10)>>

print_int64(value) ==
  IF value < 0 THEN <<Ascii["-"]>> \o decimal_digits(-value) ELSE decimal_digits(value)

\* log: one record per SFL header the decoder read or failed to read
DecResult(ok, pos, out, ub) ==
  [ok |-> ok, pos |-> pos, out |-> out, ub |-> ub, log |-> <<>>, wide |-> FALSE]

\* the result r of a step that read the number or SFL header n
Reading(n, r) == [r EXCEPT !.wide = @ \/ n.wide]

\* the little-endian bytes read as a two's-complement number of their width:
\* the value after the sign extension of bej_decode.c:130-133
sign_extended(bytes) ==
  IF wide_bytes(bytes) THEN 0
  ELSE le_value(bytes) - (IF bytes[Len(bytes)] >= 128 THEN 256 ^ Len(bytes) ELSE 0)

unpack_integer_value(in, pos) ==
  LET none(p) == DecResult(FALSE, p, <<>>, FALSE)
      value(b) ==
        IF ~b.full THEN none(b.pos)
        ELSE [DecResult(TRUE, b.pos, print_int64(sign_extended(b.bytes)), FALSE)
                EXCEPT !.wide = wide_bytes(b.bytes)]
      val_len(l) ==
        IF ~l.ok THEN none(l.pos)
        ELSE IF l.wide THEN Reading(l, none(l.pos))
        ELSE IF l.value = 0 \/ l.value > 8 THEN none(l.pos)
        ELSE value(fread(in, l.pos, l.value))
  IN val_len(unpack_nnint(in, pos))

unpack_string_value(in, pos) ==
  LET none(p) == DecResult(FALSE, p, <<>>, FALSE)
      quoted(str) == <<Ascii["\""]>> \o str \o <<Ascii["\""]>>
      buf(b) ==
        IF ~b.full THEN none(b.pos)
        ELSE DecResult(TRUE, b.pos,
                       quoted(c_string(SubSeq(b.bytes, 1, Len(b.bytes) - 1) \o <<0>>, 0)),
                       FALSE)
      str_len(l) ==
        IF ~l.ok THEN none(l.pos)
        ELSE IF l.wide THEN Reading(l, none(l.pos))
        ELSE IF l.value = 0 THEN DecResult(TRUE, l.pos, quoted(<<>>), FALSE)
        ELSE buf(fread(in, l.pos, l.value))
  IN str_len(unpack_nnint(in, pos))

unpack_boolean_value(in, pos) ==
  LET none(p) == DecResult(FALSE, p, <<>>, FALSE)
      value(b) ==
        IF ~b.full THEN none(b.pos)
        ELSE DecResult(TRUE, b.pos,
                       IF b.bytes[1] # 0
                       THEN <<Ascii["t"], Ascii["r"], Ascii["u"], Ascii["e"]>>
                       ELSE <<Ascii["f"], Ascii["a"], Ascii["l"], Ascii["s"], Ascii["e"]>>,
                       FALSE)
      len(l) ==
        IF ~l.ok \/ l.value # 1 THEN Reading(l, none(l.pos))
        ELSE value(fread(in, l.pos, 1))
  IN len(unpack_nnint(in, pos))

\* printing a nameless enum value passes NULL to "%s": undefined behaviour
unpack_enum_value(in, pos, dict, entry) ==
  LET none(p) == DecResult(FALSE, p, <<>>, FALSE)
      found(v, f) ==
        IF ~f.ok THEN none(v.pos)
        ELSE DecResult(TRUE, v.pos, <<Ascii["\""]>> \o f.entry.name \o <<Ascii["\""]>>,
                       ~f.entry.has_name)
      enum_val(l, v) ==
        IF ~v.ok THEN none(v.pos)
        ELSE IF l.wide \/ v.wide THEN Reading(l, Reading(v, none(v.pos)))
        ELSE found(v, find_by_seq_loop(
                        bej_dict_stream_init_subset(dict, entry.child_pointer,
                                                    entry.child_count),
                        v.value))
      len(l) == IF ~l.ok THEN none(l.pos) ELSE enum_val(l, unpack_nnint(in, l.pos))
  IN len(unpack_nnint(in, pos))

\* the record of one step of a property or element loop: the SFL it read, the
\* stream positions before and after the value, and what the step returned
DecEvent(kind, ok, sfl, start, end) ==
  [kind |-> kind, ok |-> ok, sequence_num |-> sfl.seq \div 2, selector |-> sfl.seq % 2,
   format |-> sfl.format, length |-> sfl.length, start |-> start, end |-> end,
   dict |-> IF "dict" \in DOMAIN sfl THEN sfl.dict ELSE "none",
   entry_at |-> IF "entry_at" \in DOMAIN sfl THEN sfl.entry_at ELSE 0]

\* the SFL header h with the dictionary its entry was looked up in and the
\* offset of the entry the lookup f found
Resolved(h, dict, f) ==
  [x \in DOMAIN h \cup {"dict", "entry_at"} |->
     IF x = "dict" THEN dict
     ELSE IF x = "entry_at" THEN (IF f.ok THEN f.entry.at ELSE 0)
     ELSE h[x]]

\* fseek(in, length, SEEK_CUR) on the fmemopen stream of bej_decode_buffer: a
\* target beyond the buffer is refused and the position stays
fseek_cur(in, pos, length) == IF pos + length <= Len(in) THEN pos + length ELSE pos

\* a step that stops at the SFL header h, which it could not use
DecStop(kind, h, start) ==
  [DecResult(FALSE, h.pos, <<>>, FALSE) EXCEPT
     !.log = IF kind = "none" THEN <<>> ELSE <<DecEvent(kind, FALSE, h, start, h.pos)>>,
     !.wide = h.wide]

\* the value v of the SFL header h, a separator, and the steps after it
DecThen(kind, h, name, v, comma, rest) ==
  [ok |-> rest.ok, pos |-> rest.pos, out |-> name \o v.out \o comma \o rest.out,
   ub |-> v.ub \/ rest.ub,
   log |-> <<DecEvent(kind, v.ok, h, h.pos, v.pos)>> \o v.log \o rest.log,
   wide |-> v.wide \/ rest.wide]

RECURSIVE decode_value(_, _, _, _, _, _)
RECURSIVE decode_array_elements(_, _, _, _, _, _, _)
RECURSIVE decode_array(_, _, _, _, _)
RECURSIVE decode_set(_, _, _, _, _)
RECURSIVE decode_properties_from(_, _, _, _, _, _, _, _, _, _)

\* the loop of decode_array from element i (0-based) on; the value of
\* decode_value is dropped
decode_array_elements(i, count, in, pos, schema_dict, annot_dict, element_entry) ==
  LET valued(h, v) ==
        DecThen("element", h, <<>>, v, IF i < count - 1 THEN <<Ascii[","]>> ELSE <<>>,
                decode_array_elements(i + 1, count, in, v.pos, schema_dict, annot_dict,
                                      element_entry))
      header(h) ==
        IF ~h.ok THEN DecStop("sfl_failure", h, pos)
        ELSE IF h.wide THEN DecStop("none", h, pos)
        ELSE valued(h, decode_value(in, h.pos, schema_dict, annot_dict, element_entry,
                                    h.length))
  IN IF i >= count THEN DecResult(TRUE, pos, <<>>, FALSE)
     ELSE header(unpack_sfl(in, pos))

decode_array(in, pos, schema_dict, annot_dict, entry) ==
  LET none(p) == DecResult(FALSE, p, <<>>, FALSE)
      closed(r) ==
        IF ~r.ok THEN [r EXCEPT !.out = <<Ascii["["]>> \o r.out]
        ELSE [r EXCEPT !.out = <<Ascii["["]>> \o r.out \o <<Ascii["]"]>>]
      elements(c, n) ==
        IF ~n.ok THEN DecResult(TRUE, c.pos, <<Ascii["["], Ascii["]"]>>, FALSE)
        ELSE closed(decode_array_elements(0, c.value, in, c.pos, schema_dict, annot_dict,
                                          n.entry))
      count(c) ==
        IF ~c.ok THEN none(c.pos)
        ELSE IF c.wide THEN Reading(c, none(c.pos))
        ELSE IF ~entry.has_name THEN DecResult(FALSE, c.pos, <<Ascii["["]>>, TRUE)
        ELSE elements(c, bej_dict_stream_next(
                           bej_dict_stream_init_subset(
                             IF IsAt(entry.name) THEN annot_dict ELSE schema_dict,
                             entry.child_pointer, entry.child_count)))
  IN count(unpack_nnint(in, pos))

\* the value of bej_decode_stream_internal is dropped
decode_set(in, pos, schema_dict, annot_dict, entry) ==
  LET none(p) == DecResult(FALSE, p, <<>>, FALSE)
      closed(r) ==
        [ok |-> TRUE, pos |-> r.pos, out |-> <<Ascii["{"]>> \o r.out \o <<Ascii["}"]>>,
         ub |-> r.ub, log |-> r.log, wide |-> r.wide]
      count(c) ==
        IF ~c.ok THEN none(c.pos)
        ELSE IF c.wide THEN Reading(c, none(c.pos))
        ELSE IF ~entry.has_name THEN DecResult(FALSE, c.pos, <<Ascii["{"]>>, TRUE)
        ELSE closed(IF c.value > 0
                    THEN decode_properties_from(
                           0, c.value, in, c.pos, schema_dict, annot_dict,
                           IF IsAt(entry.name) THEN annot_dict ELSE schema_dict,
                           entry.child_pointer, entry.child_count, 1)
                    ELSE DecResult(TRUE, c.pos, <<>>, FALSE))
  IN count(unpack_nnint(in, pos))

decode_value(in, pos, schema_dict, annot_dict, entry, length) ==
  CASE entry.format = BEJ_FORMAT_SET -> decode_set(in, pos, schema_dict, annot_dict, entry)
    [] entry.format = BEJ_FORMAT_ARRAY ->
         decode_array(in, pos, schema_dict, annot_dict, entry)
    [] entry.format = BEJ_FORMAT_INTEGER -> unpack_integer_value(in, pos)
    [] entry.format = BEJ_FORMAT_STRING -> unpack_string_value(in, pos)
    [] entry.format = BEJ_FORMAT_BOOLEAN -> unpack_boolean_value(in, pos)
    [] entry.format = BEJ_FORMAT_ENUM ->
         IF ~entry.has_name THEN DecResult(FALSE, pos, <<>>, TRUE)
         ELSE unpack_enum_value(in, pos,
                                IF IsAt(entry.name) THEN annot_dict ELSE schema_dict,
                                entry)
    [] entry.format = BEJ_FORMAT_NULL ->
         DecResult(TRUE, pos, <<Ascii["n"], Ascii["u"], Ascii["l"], Ascii["l"]>>, FALSE)
    [] OTHER -> DecResult(TRUE, fseek_cur(in, pos, length), <<>>, FALSE)

\* bej_decode_stream_internal: its loop from property i (0-based) on
decode_properties_from(i, prop_count, in, pos, schema_dict, annot_dict, current_dict, child_ptr, child_count, add_name) ==
  LET failed(h, name, v) ==
        [ok |-> FALSE, pos |-> v.pos, out |-> name \o v.out, ub |-> v.ub,
         log |-> <<DecEvent("property", FALSE, h, h.pos, v.pos)>> \o v.log,
         wide |-> v.wide]
      valued(h, name, v) ==
        IF ~v.ok THEN failed(h, name, v)
        ELSE DecThen("property", h, name, v,
                     IF i < prop_count - 1 THEN <<Ascii[","]>> ELSE <<>>,
                     decode_properties_from(i + 1, prop_count, in, v.pos, schema_dict,
                                            annot_dict, current_dict, child_ptr,
                                            child_count, add_name))
      found(h, f) ==
        IF ~f.ok THEN DecStop("lookup_miss", h, h.pos)
        ELSE valued(h, IF add_name # 0 THEN decode_name(f.entry) ELSE <<>>,
                    decode_value(in, h.pos, schema_dict, annot_dict, f.entry, h.length))
      looked(h, dict, f) == found(Resolved(h, dict, f), f)
      routed(h, sn) ==
        IF sn.selector = 0
        THEN looked(h, IF current_dict = annot_dict THEN "annot" ELSE "schema",
                    get_entry_by_seq(current_dict, child_ptr, child_count,
                                     sn.sequence_num))
        ELSE looked(h, "annot",
                    get_entry_by_seq(annot_dict, 0, U16(annot_dict.size),
                                     sn.sequence_num))
      header(h) ==
        IF ~h.ok THEN DecStop("sfl_failure", h, pos)
        ELSE IF h.wide THEN DecStop("none", h, pos)
        ELSE routed(h, decode_sequence_number(h.seq))
  IN IF i >= prop_count THEN DecResult(TRUE, pos, <<>>, FALSE)
     ELSE header(unpack_sfl(in, pos))

\* fseek(input_stream, 7, SEEK_SET)
BEJ_HEADER_SIZE == 7

bej_decode_stream(in, schema_dict, annot_dict) ==
  LET outer(h, v) ==
        [v EXCEPT !.log = <<DecEvent("outer", v.ok, h, h.pos, v.pos)>> \o v.log]
      header(root, h) ==
        IF ~h.ok \/ h.format # BEJ_FORMAT_SET \/ h.wide THEN DecStop("none", h, h.pos)
        ELSE outer(h, decode_value(in, h.pos, schema_dict, annot_dict,
                                   [root.entry EXCEPT !.format = BEJ_FORMAT_SET],
                                   h.length))
      rooted(start, root) ==
        IF ~root.ok THEN DecResult(FALSE, start, <<>>, FALSE)
        ELSE header(root, unpack_sfl(in, start))
  IN IF schema_dict.null \/ annot_dict.null THEN DecResult(FALSE, 0, <<>>, FALSE)
     ELSE rooted(IF BEJ_HEADER_SIZE <= Len(in) THEN BEJ_HEADER_SIZE ELSE 0,
                 bej_dict_stream_next(bej_dict_stream_init(schema_dict)))

(***************************************************************************)
(* JSON text parser (json.c).  The text is a sequence of characters, cur   *)
(* the 1-based index of parser->current; reading at or behind the end      *)
(* yields the terminating NUL.                                             *)
(***************************************************************************)
CharAt(text, cur) == IF cur >= 1 /\ cur <= Len(text) THEN text[cur] ELSE 0

ParseFail(cur) == [ok |-> FALSE, value |-> JNull, cur |-> cur]
Parsed(value, cur) == [ok |-> TRUE, value |-> value, cur |-> cur]

\* isspace
IsSpace(c) == c \in {9, 10, 11, 12, 13, 32}
IsDigit(c) == c >= Ascii["0"] /\ c <= Ascii["0"] + 9

RECURSIVE skip_whitespace(_, _)
skip_whitespace(text, cur) ==
  IF CharAt(text, cur) # 0 /\ IsSpace(CharAt(text, cur))
  THEN skip_whitespace(text, cur + 1) ELSE cur

\* first loop of parse_string: where the scan for the closing quote stops
RECURSIVE string_scan(_, _)
string_scan(text, cur) ==
  LET c == CharAt(text, cur)
  IN IF c = 0 \/ c = Ascii["\""] THEN cur
     ELSE IF c = Ascii["\\"]
       THEN IF CharAt(text, cur + 1) = 0 THEN cur + 1
            ELSE IF CharAt(text, cur + 1) = Ascii["u"] THEN string_scan(text, cur + 6)
            ELSE string_scan(text, cur + 2)
     ELSE string_scan(text, cur + 1)

\* what a backslash followed by c stands for; 0 for an invalid escape
Unescaped(c) ==
  CASE c = Ascii["\""] -> Ascii["\""]
    [] c = Ascii["\\"] -> Ascii["\\"]
    [] c = Ascii["/"] -> Ascii["/"]
    [] c = Ascii["b"] -> 8
    [] c = Ascii["f"] -> 12
    [] c = Ascii["n"] -> 10
    [] c = Ascii["r"] -> 13
    [] c = Ascii["t"] -> 9
    [] OTHER -> 0

\* second loop of parse_string: the characters copied and where it stops
RECURSIVE string_copy(_, _)
string_copy(text, cur) ==
  LET copied(c, r) == [r EXCEPT !.str = <<c>> \o r.str]
      escape(e) ==
        IF e = Ascii["u"] THEN copied(Ascii["?"], string_copy(text, cur + 5))
        ELSE IF Unescaped(e) = 0 THEN [ok |-> FALSE, str |-> <<>>, cur |-> cur + 1]
        ELSE copied(Unescaped(e), string_copy(text, cur + 2))
      char(c) ==
        IF c = 0 \/ c = Ascii["\""] THEN [ok |-> TRUE, str |-> <<>>, cur |-> cur]
        ELSE IF c = Ascii["\\"] THEN escape(CharAt(text, cur + 1))
        ELSE copied(c, string_copy(text, cur + 1))
  IN char(CharAt(text, cur))

\* cur is at the opening quote
parse_string(text, cur) ==
  LET copy(r) == IF ~r.ok THEN ParseFail(r.cur) ELSE Parsed(JStr(r.str), r.cur + 1)
      scanned(stop) ==
        IF CharAt(text, stop) # Ascii["\""] THEN ParseFail(stop)
        ELSE copy(string_copy(text, cur + 1))
  IN scanned(string_scan(text, cur + 1))

RECURSIVE digits_end(_, _)
digits_end(text, cur) ==
  IF IsDigit(CharAt(text, cur)) THEN digits_end(text, cur + 1) ELSE cur

RECURSIVE digits_value(_)
digits_value(ds) ==
  IF ds = <<>> THEN 0
  ELSE 10 * digits_value(SubSeq(ds, 1, Len(ds) - 1)) + (ds[Len(ds)] - Ascii["0"])

\* sign and integer part, converted by strtod; the decoder prints numbers with
\* PRId64, so no fraction or exponent follows the digits in any text of the model
parse_number(text, cur) ==
  LET signed(neg, magnitude) == IF neg THEN -magnitude ELSE magnitude
      number(neg, first, last) ==
        Parsed(JNum(signed(neg, digits_value(SubSeq(text, first, last - 1)))), last)
      digits(neg, first) ==
        IF ~IsDigit(CharAt(text, first)) THEN ParseFail(first)
        ELSE number(neg, first,
                    IF CharAt(text, first) = Ascii["0"] THEN first + 1
                    ELSE digits_end(text, first))
  IN IF CharAt(text, cur) = Ascii["-"] THEN digits(TRUE, cur + 1) ELSE digits(FALSE, cur)

match_string(text, cur, str) == SubSeq(text, cur, Min(Len(text), cur + Len(str) - 1)) = str

parse_literal(text, cur) ==
  IF match_string(text, cur, <<Ascii["t"], Ascii["r"], Ascii["u"], Ascii["e"]>>)
  THEN Parsed(JBool(TRUE), cur + 4)
  ELSE IF match_string(text, cur,
                       <<Ascii["f"], Ascii["a"], Ascii["l"], Ascii["s"], Ascii["e"]>>)
  THEN Parsed(JBool(FALSE), cur + 5)
  ELSE IF match_string(text, cur, <<Ascii["n"], Ascii["u"], Ascii["l"], Ascii["l"]>>)
  THEN Parsed(JNull, cur + 4)
  ELSE ParseFail(cur)

RECURSIVE parse_value(_, _)
RECURSIVE parse_object_pairs(_, _, _)
RECURSIVE parse_array_items(_, _, _)

\* the loop of parse_object: entries holds the pairs added so far
parse_object_pairs(text, cur0, entries) ==
  LET closed(after, added) ==
        IF CharAt(text, after) = Ascii["}"] THEN Parsed(JObj(added), after + 1)
        ELSE IF CharAt(text, after) = Ascii[","]
        THEN parse_object_pairs(text, after + 1, added)
        ELSE ParseFail(after)
      valued(k, v) ==
        IF ~v.ok THEN ParseFail(v.cur)
        ELSE closed(skip_whitespace(text, v.cur),
                    Append(entries, KV(k.value.string, v.value)))
      coloned(k, colon) ==
        IF CharAt(text, colon) # Ascii[":"] THEN ParseFail(colon)
        ELSE valued(k, parse_value(text, colon + 1))
      keyed(k) == IF ~k.ok THEN ParseFail(k.cur) ELSE coloned(k, skip_whitespace(text, k.cur))
      started(cur) ==
        IF CharAt(text, cur) # Ascii["\""] THEN ParseFail(cur)
        ELSE keyed(parse_string(text, cur))
  IN started(skip_whitespace(text, cur0))

\* cur is at the opening brace
parse_object(text, cur) ==
  LET opened(first) ==
        IF CharAt(text, first) = Ascii["}"] THEN Parsed(JObj(<<>>), first + 1)
        ELSE parse_object_pairs(text, first, <<>>)
  IN opened(skip_whitespace(text, cur + 1))

\* the loop of parse_array: items holds the values added so far
parse_array_items(text, cur, items) ==
  LET closed(after, added) ==
        IF CharAt(text, after) = Ascii["]"] THEN Parsed(JArr(added), after + 1)
        ELSE IF CharAt(text, after) = Ascii[","]
        THEN parse_array_items(text, after + 1, added)
        ELSE ParseFail(after)
      valued(v) ==
        IF ~v.ok THEN ParseFail(v.cur)
        ELSE closed(skip_whitespace(text, v.cur), Append(items, v.value))
  IN valued(parse_value(text, cur))

\* cur is at the opening bracket
parse_array(text, cur) ==
  LET opened(first) ==
        IF CharAt(text, first) = Ascii["]"] THEN Parsed(JArr(<<>>), first + 1)
        ELSE parse_array_items(text, first, <<>>)
  IN opened(skip_whitespace(text, cur + 1))

parse_value(text, cur0) ==
  LET dispatch(cur, c) ==
        IF c = 0 THEN ParseFail(cur)
        ELSE IF c = Ascii["{"] THEN parse_object(text, cur)
        ELSE IF c = Ascii["["] THEN parse_array(text, cur)
        ELSE IF c = Ascii["\""] THEN parse_string(text, cur)
        ELSE IF c \in {Ascii["t"], Ascii["f"], Ascii["n"]} THEN parse_literal(text, cur)
        ELSE IF c = Ascii["-"] \/ IsDigit(c) THEN parse_number(text, cur)
        ELSE ParseFail(cur)
      at(cur) == dispatch(cur, CharAt(text, cur))
  IN at(skip_whitespace(text, cur0))

\* NULL is reported as ok = FALSE
json_parse(input) ==
  LET ended(r, end) == IF CharAt(input, end) # 0 THEN ParseFail(end) ELSE r
      parsed(r) == IF ~r.ok THEN ParseFail(r.cur) ELSE ended(r, skip_whitespace(input, r.cur))
  IN parsed(parse_value(input, 1))

\* the inner loop of json_compare: the first entry of b whose key is key, from j on
RECURSIVE first_with_key(_, _, _)
first_with_key(b, key, j) ==
  IF j > Len(b.kids) THEN 0
  ELSE IF b.kids[j].key = key THEN j
  ELSE first_with_key(b, key, j + 1)

RECURSIVE json_compare(_, _)
json_compare(a, b) ==
  LET same_value(v, j) == j # 0 /\ json_compare(v, b.kids[j].value)
  IN IF a.type # b.type THEN FALSE
     ELSE CASE a.type = JSON_STRING -> a.string = b.string
            [] a.type = JSON_NUMBER -> a.number2 = b.number2
            [] a.type = JSON_BOOL -> a.boolean = b.boolean
            [] a.type = JSON_NULL -> TRUE
            [] a.type = JSON_ARRAY ->
                 /\ Len(a.kids) = Len(b.kids)
                 /\ \A i \in 1..Len(a.kids) : json_compare(a.kids[i], b.kids[i])
            [] a.type = JSON_OBJECT ->
                 /\ Len(a.kids) = Len(b.kids)
                 /\ \A i \in 1..Len(a.kids) :
                      same_value(a.kids[i].value, first_with_key(b, a.kids[i].key, 1))
            [] OTHER -> FALSE

\* the decoder's result: ok = FALSE is the NULL return; text is what
\* bej_decode_stream wrote to the scratch output stream
bej_decode_buffer(data, schema_dict, annot_dict) ==
  LET result(d, parsed) ==
        [ok |-> parsed.ok, json |-> parsed.value,
         success |-> d.ok, text |-> d.out, pos |-> d.pos, ub |-> d.ub, log |-> d.log,
         wide |-> d.wide]
      decoded(d) ==
        result(d, IF d.ok /\ Len(d.out) > 0 THEN json_parse(d.out) ELSE ParseFail(0))
  IN decoded(bej_decode_stream(data, schema_dict, annot_dict))

(***************************************************************************)
(* Inputs.  A run takes a JSON tree and an annotation dictionary, encodes  *)
(* the tree (cli_encode.c, test_encode_compare.cpp:54) and decodes the     *)
(* file with the same dictionaries (cli_decode.c,                          *)
(* test_encode_compare.cpp:69).  In the runs of TamperSpec one byte of the *)
(* file may be replaced between the two calls.                             *)
(***************************************************************************)
\* most (key, value) pairs of the root object
MaxProps == 2
\* longest encoded file that gets a byte replaced
MaxWire == 36

\* the values a replaced byte takes: a zero NNINT width, a small width, a width
\* above 8, the wire sequence of the REAL property F
TamperBytes == {0, 2, 9, 14}

RootPairs ==
  { KV(NameX, JNum(1)), KV(NameX, JNum(-129)), KV(NameX, JHalves(3)),
    KV(NameX, JStr(StrA)),
    KV(NameS, JStr(StrA)), KV(NameS, JStr(<<>>)), KV(NameS, JStr(StrQuote)),
    KV(NameB, JBool(TRUE)),
    KV(NameN, JNull), KV(NameN, JNum(1)),
    KV(NameE, JStr(StrA)), KV(NameE, JStr(NameZ)),
    KV(NameA, JArr(<<JStr(StrA), JStr(StrB)>>)), KV(NameA, JNum(1)),
    KV(NameO, JObj(<<KV(NameX, JNum(1)), KV(NameZ, JBool(FALSE))>>)),
    KV(NameO, JNum(1)),
    KV(NameF, JNum(1)),
    KV(NameZ, JNum(2)),
    KV(NameAtC, JNum(1)),
    KV(NameAtO, JObj(<<KV(NameX, JNum(1))>>)) }

Tuple(f) == [i \in 1..Len(f) |-> f[i]]

\* objects whose encoding fails below the root: a set property holding a
\* mistyped property behind a good one, an array holding a mistyped item
NestedFailures ==
  { JObj(<<KV(NameO, JObj(<<KV(NameX, JNum(1)), KV(NameB, JStr(StrA))>>))>>),
    JObj(<<KV(NameA, JArr(<<JStr(StrA), JNum(1)>>))>>) }

JsonInputs ==
  { JObj(Tuple(f)) : f \in UNION { [1..k -> RootPairs] : k \in 0..MaxProps } }
  \cup { JNum(1), JArr(<<>>) } \cup NestedFailures

\* the objects encoded with the schema whose array holds sets
AnonInputs ==
  { JObj(<<>>),
    JObj(<<KV(NameL, JArr(<<>>))>>),
    JObj(<<KV(NameL, JArr(<<JObj(<<KV(NameX, JNum(1))>>)>>))>>) }

AnnotInputs == { NULL, AnnotDict, AnnotDictAt0 }

\* documents for the annotation dictionary whose set @o points at offset 22
CrossInputs ==
  { JObj(<<KV(NameAtO, JObj(<<KV(NameX, JNum(1))>>))>>),
    JObj(<<KV(NameAtO, JObj(<<>>)), KV(NameX, JNum(1))>>) }

(***************************************************************************)
(* State.                                                                  *)
(***************************************************************************)
VARIABLES
  pc,           \* "input", "encoded", "tampered", "decoded" or "crashed"
  json_data,    \* the JSON tree handed to the encoder
  schema_dict,  \* the schema dictionary of both calls
  annot_dict,   \* the annotation dictionary of both calls, or NULL
  enc,          \* what bej_encode_stream returned and wrote
  wire,         \* the file handed to the decoder
  dec,          \* what bej_decode_buffer returned
  unit          \* the operands and results of one call of a static helper

vars == <<pc, json_data, schema_dict, annot_dict, enc, wire, dec, unit>>

NoUnit == [op |-> "none"]

NoEnc == [ok |-> FALSE, sink |-> <<>>, log |-> <<>>, ub |-> FALSE, tmp |-> <<>>]
NoDec == [ok |-> FALSE, json |-> JNull, success |-> FALSE, text |-> <<>>, pos |-> 0,
          ub |-> FALSE, log |-> <<>>, wide |-> FALSE]

Init ==
  /\ pc = "input"
  /\ \/ schema_dict = SchemaDict /\ json_data \in JsonInputs /\ annot_dict \in AnnotInputs
     \/ schema_dict = SchemaAnon /\ json_data \in AnonInputs /\ annot_dict \in AnnotInputs
     \/ schema_dict = SchemaDict /\ json_data \in CrossInputs
          /\ annot_dict = AnnotDictCross
  /\ enc = NoEnc
  /\ wire = <<>>
  /\ dec = NoDec
  /\ unit = NoUnit

\* bej_encode_stream writes the file.  Undefined behaviour ends the process or
\* lets the call return either value.
Encode ==
  /\ pc = "input"
  /\ LET r == bej_encode_stream(json_data, schema_dict, annot_dict)
     IN IF r.ub
        THEN \/ pc' = "crashed" /\ enc' = r
             \/ \E okv \in BOOLEAN : pc' = "encoded" /\ enc' = [r EXCEPT !.ok = okv]
        ELSE pc' = "encoded" /\ enc' = r
  /\ wire' = enc'.sink
  /\ UNCHANGED <<json_data, schema_dict, annot_dict, dec, unit>>

\* one byte behind the file header is replaced before the file is decoded
Tamper ==
  /\ pc = "encoded"
  /\ enc.ok
  /\ Len(wire) <= MaxWire
  /\ \E i \in (BEJ_HEADER_SIZE + 1)..Len(wire) : \E b \in TamperBytes :
       /\ wire[i] # b
       /\ wire' = [wire EXCEPT ![i] = b]
       /\ ~bej_decode_stream(wire', schema_dict, annot_dict).wide
  /\ pc' = "tampered"
  /\ UNCHANGED <<json_data, schema_dict, annot_dict, enc, dec, unit>>

\* bej_decode_buffer reads the file.  Undefined behaviour ends the process or
\* lets the call return what it had, as success or as failure.
Decode ==
  /\ pc \in {"encoded", "tampered"}
  /\ enc.ok
  /\ LET r == bej_decode_buffer(wire, schema_dict, annot_dict)
     IN IF r.ub
        THEN \/ pc' = "crashed" /\ dec' = r
             \/ \E okv \in BOOLEAN : pc' = "decoded" /\ dec' = [r EXCEPT !.ok = okv]
        ELSE pc' = "decoded" /\ dec' = r
  /\ UNCHANGED <<json_data, schema_dict, annot_dict, enc, wire, unit>>

Next == Encode \/ Decode

Spec == Init /\ [][Next]_vars

\* the runs in which the decoder may be handed a damaged file
TamperNext == Encode \/ Tamper \/ Decode

TamperSpec == Init /\ [][TamperNext]_vars

(***************************************************************************)
(* The dictionary on its own: a file is loaded, a cursor is set on a       *)
(* subset of the loaded buffer and advanced until it yields nothing.       *)
(***************************************************************************)
File(bytes) == [present |-> TRUE, bytes |-> bytes]

Zeros(n) == [i \in 1..n |-> 0]

DictFiles ==
  { File(SchemaDict.bytes), File(AnnotDict.bytes), File(AnnotDictAt0.bytes),
    [present |-> FALSE, bytes |-> <<>>],
    File(<<>>), File(Zeros(11)),
    File(DictHeader(0)), File(DictHeader(5)),
    File(DictHeader(1) \o <<48, 0, 0, 0, 0, 0, 0, 0, 0, 0>>),
    File(DictHeader(2) \o <<48, 0, 0, 0, 0, 0, 0, 0, 0, 0>> \o Zeros(5)) }

\* offsets and counts a caller hands to bej_dict_stream_init_subset
SubsetOffsets(file) ==
  {0, 12, 22} \cup { o \in {Len(file.bytes) - 10, Len(file.bytes) - 9, Len(file.bytes)} :
                      o >= 0 }

SubsetCounts == {0, 1, 2, 3, 20, BEJ_CHILD_COUNT_WILDCARD}

DictUnits ==
  { [op |-> "dictionary", file |-> f, dict |-> NULL, offset |-> o, count |-> c,
     s |-> bej_dict_stream_init(NULL), yielded |-> <<>>] :
      f \in DictFiles, o \in {0, 12, 22, 2, 17, 27, 38, 39, 48, 170, 171, 180},
      c \in SubsetCounts }

\* the sequence numbers of selector-1 SFLs the decoder looks up in a loaded
\* annotation dictionary
LookupUnits ==
  [op : {"lookup"}, dict : {AnnotDict, AnnotDictAt0}, seq : 0..7,
   read : {[ok |-> FALSE, entry |-> NoEntry]}]

DictInit ==
  /\ pc = "input"
  /\ json_data = JNull
  /\ schema_dict = NULL
  /\ annot_dict = NULL
  /\ enc = NoEnc
  /\ wire = <<>>
  /\ dec = NoDec
  /\ unit \in { u \in DictUnits : u.offset \in SubsetOffsets(u.file) } \cup LookupUnits

Load ==
  /\ pc = "input" /\ unit.op = "dictionary"
  /\ unit' = [unit EXCEPT !.dict = bej_dictionary_load(unit.file)]
  /\ pc' = IF unit'.dict.null THEN "failed" ELSE "loaded"
  /\ UNCHANGED <<json_data, schema_dict, annot_dict, enc, wire, dec>>

StreamInitSubset ==
  /\ pc = "loaded"
  /\ unit' = [unit EXCEPT !.s = bej_dict_stream_init_subset(unit.dict, unit.offset,
                                                           unit.count)]
  /\ pc' = "cursor"
  /\ UNCHANGED <<json_data, schema_dict, annot_dict, enc, wire, dec>>

\* one call of bej_dict_stream_next; the cursor is given up when it returns 0
StreamNext ==
  /\ pc = "cursor"
  /\ LET step(r) ==
           IF r.ok
           THEN /\ unit' = [unit EXCEPT !.s = r.s, !.yielded = Append(@, r.entry)]
                /\ pc' = "cursor"
           ELSE /\ unit' = unit
                /\ pc' = "drained"
     IN step(bej_dict_stream_next(unit.s))
  /\ UNCHANGED <<json_data, schema_dict, annot_dict, enc, wire, dec>>

\* the lookup bej_decode_stream_internal makes for an SFL with selector 1
AnnotLookup ==
  /\ pc = "input" /\ unit.op = "lookup"
  /\ unit' = [unit EXCEPT !.read = get_entry_by_seq(unit.dict, 0, U16(unit.dict.size),
                                                    unit.seq)]
  /\ pc' = "looked"
  /\ UNCHANGED <<json_data, schema_dict, annot_dict, enc, wire, dec>>

DictNext == Load \/ StreamInitSubset \/ StreamNext \/ AnnotLookup

DictSpec == DictInit /\ [][DictNext]_vars

(***************************************************************************)
(* The decoder on files it did not write, with a schema dictionary whose   *)
(* child pointers lead back to the entries themselves, next to the walks   *)
(* of a dictionary cursor.                                                 *)
(***************************************************************************)
NameC == <<67>>
NameV == <<86>>

\* root R at 12 with the children C and V at 22 and 32; the children of the
\* SET C are C and V again; the element archetype of the ARRAY V is V itself
CyclicEntries ==
  << DE(BEJ_FORMAT_SET, 0, 22, 2, NameR),
     DE(BEJ_FORMAT_SET, 0, 22, 2, NameC),
     DE(BEJ_FORMAT_ARRAY, 1, 32, 1, NameV) >>

SchemaCyclic ==
  bej_dictionary_t(DictionaryFile(DictHeader(Len(CyclicEntries)), CyclicEntries))

\* the NNINT images of the counts a stream declares
StreamCounts == { <<1, 1>>, <<1, 200>>, <<3, 255, 255, 255>> }

MaxNest == 4

\* depth sets or arrays, each declaring count members and holding one: the
\* SFL of sequence value seq and format byte fmt, then again a count
RECURSIVE Nested(_, _, _, _)
Nested(depth, count, seq, fmt) ==
  IF depth = 0 THEN <<1, 0>>
  ELSE count \o <<1, seq, fmt, 1, 9>> \o Nested(depth - 1, count, seq, fmt)

\* the file header, the outer SFL and the first n bytes of a nesting
RawFiles ==
  LET whole(c, m) == <<1, 0, 0, 1, 9>> \o Nested(MaxNest, c, m[1], m[2])
  IN UNION { { BEJ_HEADER \o SubSeq(whole(c, m), 1, n) : n \in 0..Len(whole(c, m)) } :
               c \in StreamCounts, m \in { <<0, 0>>, <<2, 16>>, <<0, 16>>, <<4, 0>>, <<1, 0>> } }

FileInit ==
  /\ pc = "input"
  /\ json_data = JNull
  /\ schema_dict \in {SchemaCyclic, SchemaDict}
  /\ annot_dict = AnnotDict
  /\ enc = NoEnc
  /\ wire \in RawFiles
  /\ dec = NoDec
  /\ unit = [op |-> "file"]

\* bej_decode_buffer on a file as it is
DecodeFile ==
  /\ pc = "input" /\ unit.op = "file"
  /\ LET r == bej_decode_buffer(wire, schema_dict, annot_dict)
     IN IF r.ub
        THEN \/ pc' = "crashed" /\ dec' = r
             \/ \E okv \in BOOLEAN : pc' = "decoded" /\ dec' = [r EXCEPT !.ok = okv]
        ELSE pc' = "decoded" /\ dec' = r
  /\ UNCHANGED <<json_data, schema_dict, annot_dict, enc, wire, unit>>

FilesInit == DictInit \/ FileInit

FilesNext == DictNext \/ DecodeFile

FilesSpec == FilesInit /\ [][FilesNext]_vars

(***************************************************************************)
(* json_compare on its own: two trees are compared, then the same two in   *)
(* the other order (test_encode_compare.cpp:74 compares the input tree     *)
(* with the decoded one).                                                  *)
(***************************************************************************)
CompareLeaves == { JNull, JBool(TRUE), JNum(1), JNum(2), JStr(StrA) }

ComparePairs == { KV(k, v) : k \in {NameX, NameS}, v \in {JNum(1), JNum(2), JStr(StrA)} }

\* leaves, arrays and objects of at most two members, objects with a repeated
\* key included, and an object and an array holding an object
CompareTrees ==
  CompareLeaves
    \cup { JObj(Tuple(f)) : f \in UNION { [1..k -> ComparePairs] : k \in 0..2 } }
    \cup { JArr(Tuple(f)) : f \in UNION { [1..k -> {JNum(1), JNum(2), JStr(StrA)}] :
                                            k \in 0..2 } }
    \cup { JObj(<<KV(NameO, JObj(<<KV(NameX, v), KV(NameS, w)>>))>>) :
             v, w \in {JNum(1), JNum(2)} }
    \cup { JObj(<<KV(NameO, JObj(<<KV(NameS, v), KV(NameX, w)>>))>>) :
             v, w \in {JNum(1), JNum(2)} }
    \cup { JArr(<<JObj(<<KV(NameX, v)>>)>>) : v \in {JNum(1), JNum(2)} }

CompareUnits ==
  [op : {"compare"}, a : CompareTrees, b : CompareTrees, read : {FALSE}, back : {FALSE}]

CompareInit ==
  /\ pc = "input"
  /\ json_data = JNull
  /\ schema_dict = NULL
  /\ annot_dict = NULL
  /\ enc = NoEnc
  /\ wire = <<>>
  /\ dec = NoDec
  /\ unit \in CompareUnits

\* json_compare(a, b)
Compare ==
  /\ pc = "input" /\ unit.op = "compare"
  /\ unit' = [unit EXCEPT !.read = json_compare(unit.a, unit.b)]
  /\ pc' = "compared"
  /\ UNCHANGED <<json_data, schema_dict, annot_dict, enc, wire, dec>>

\* json_compare(b, a)
CompareBack ==
  /\ pc = "compared" /\ unit.op = "compare"
  /\ unit' = [unit EXCEPT !.back = json_compare(unit.b, unit.a)]
  /\ pc' = "compared_back"
  /\ UNCHANGED <<json_data, schema_dict, annot_dict, enc, wire, dec>>

CompareNext == Compare \/ CompareBack

CompareSpec == CompareInit /\ [][CompareNext]_vars

(***************************************************************************)
(* The number primitives on their own: pack_nnint and pack_integer_value   *)
(* write a number to an empty stream, other bytes follow it, and           *)
(* unpack_nnint or unpack_integer_value reads the stream from its start.   *)
(***************************************************************************)
MaxNnint == 140
MaxInteger == 140

NnintValues == 0..MaxNnint \cup {255, 256, 257, 65535, 65536, 16777215, 16777216, 2147483647}

IntegerValues ==
  (-MaxInteger)..MaxInteger
    \cup {255, 256, -256, -257, 32767, 32768, -32768, -32769, 8388607, 8388608,
          -8388608, -8388609, 2147483647, -2147483647}

\* the bytes that lie behind the number in the stream
StreamTails == { <<>>, <<2, 7>> }

NumberUnits ==
  [op : {"nnint"}, value : NnintValues, tail : StreamTails, bytes : {<<>>},
   read : {NoUnit}]
    \cup [op : {"integer"}, value : IntegerValues, tail : StreamTails, bytes : {<<>>},
          read : {NoUnit}]

\* the indexes at which the loop body of encode_array_payload is entered
ElementIndexes == {0, 1, 2, 255, 256, 65535, 65536, 65537}

\* the array entries of the schema dictionary's root and their archetypes
SchemaRoot == bej_dict_stream_next(bej_dict_stream_init(SchemaDict)).entry

ArrayEntries ==
  { e \in { bej_dict_find_child_by_name(SchemaDict, SchemaRoot.child_pointer,
                                        SchemaRoot.child_count, name).entry :
              name \in {NameA, NameX} } : e.format = BEJ_FORMAT_ARRAY }

ArchetypeOf(array_entry) ==
  bej_dict_stream_next(
    bej_dict_stream_init_subset(SchemaDict, array_entry.child_pointer,
                                array_entry.child_count)).entry

\* the item at index "value" of a JSON array that has more items than that
ElementUnits ==
  [op : {"element"}, value : ElementIndexes, array : ArrayEntries,
   item : {JStr(StrA), JStr(StrB), JStr(<<>>)}, tail : {<<>>}, bytes : {<<>>},
   read : {NoUnit}]

\* input streams whose first byte is the length byte of an NNINT
RawStreams ==
  { <<>>, <<0>>, <<0, 7>>, <<1>>, <<1, 5>>, <<1, 5, 9>>, <<2, 1>>, <<2, 1, 1>>,
    <<3, 1, 2, 3, 9>>, <<8, 1, 2, 0, 0, 0, 0, 0, 0>>, <<8, 1, 0, 0>>,
    <<9, 1, 0, 0, 0, 0, 0, 0, 0, 0>>, <<255>> }

StreamUnits ==
  [op : {"stream"}, value : {0}, tail : {<<>>}, bytes : RawStreams, read : {NoUnit}]

PrimitiveInit ==
  /\ pc = "input"
  /\ json_data = JNull
  /\ schema_dict = SchemaDict
  /\ annot_dict = NULL
  /\ enc = NoEnc
  /\ wire = <<>>
  /\ dec = NoDec
  /\ unit \in NumberUnits \cup ElementUnits \cup StreamUnits

PackNnint ==
  /\ pc = "input" /\ unit.op = "nnint"
  /\ unit' = [unit EXCEPT !.bytes = pack_nnint(unit.value)]
  /\ pc' = "packed"
  /\ UNCHANGED <<json_data, schema_dict, annot_dict, enc, wire, dec>>

UnpackNnint ==
  /\ pc = "packed" /\ unit.op = "nnint"
  /\ unit' = [unit EXCEPT !.read = unpack_nnint(unit.bytes \o unit.tail, 0)]
  /\ pc' = "unpacked"
  /\ UNCHANGED <<json_data, schema_dict, annot_dict, enc, wire, dec>>

PackInteger ==
  /\ pc = "input" /\ unit.op = "integer"
  /\ unit' = [unit EXCEPT !.bytes = pack_integer_value(unit.value)]
  /\ pc' = "packed"
  /\ UNCHANGED <<json_data, schema_dict, annot_dict, enc, wire, dec>>

UnpackInteger ==
  /\ pc = "packed" /\ unit.op = "integer"
  /\ unit' = [unit EXCEPT !.read = unpack_integer_value(unit.bytes \o unit.tail, 0)]
  /\ pc' = "unpacked"
  /\ UNCHANGED <<json_data, schema_dict, annot_dict, enc, wire, dec>>

\* one pass of the loop body of encode_array_payload; read keeps its result
EncodeElement ==
  /\ pc = "input" /\ unit.op = "element"
  /\ unit' = [unit EXCEPT !.read = encode_array_element(unit.value, unit.array,
                                                       ArchetypeOf(unit.array), unit.item,
                                                       schema_dict, annot_dict)]
  /\ pc' = "packed"
  /\ UNCHANGED <<json_data, schema_dict, annot_dict, enc, wire, dec>>

\* unpack_nnint at the start of an input stream
UnpackStream ==
  /\ pc = "input" /\ unit.op = "stream"
  /\ unit' = [unit EXCEPT !.read = unpack_nnint(unit.bytes, 0)]
  /\ pc' = "unpacked"
  /\ UNCHANGED <<json_data, schema_dict, annot_dict, enc, wire, dec>>

PrimitiveNext ==
  PackNnint \/ UnpackNnint \/ PackInteger \/ UnpackInteger \/ EncodeElement
    \/ UnpackStream

PrimitiveSpec == PrimitiveInit /\ [][PrimitiveNext]_vars

(***************************************************************************)
(* Properties.                                                             *)
(***************************************************************************)
\* the root entry of the schema dictionary, as both calls obtain it
RootEntry == bej_dict_stream_next(bej_dict_stream_init(schema_dict)).entry

Encoded == pc # "input" /\ enc.ok /\ ~enc.ub

\* the file was decoded as the encoder wrote it, without undefined behaviour
DecodedAsWritten == pc = "decoded" /\ wire = enc.sink /\ ~enc.ub /\ ~dec.ub

DistinctKeys(json_object) ==
  \A i, j \in 1..Len(json_object.kids) :
    json_object.kids[i].key = json_object.kids[j].key => i = j

\* the value has the shape the entry describes, and every key of every
\* object in it resolves to an entry
RECURSIVE Expressible(_, _, _, _)
Expressible(json_value, entry, schema, annot) ==
  CASE entry.format = BEJ_FORMAT_SET ->
         /\ json_value.type = JSON_OBJECT
         /\ DistinctKeys(json_value)
         /\ \A i \in 1..Len(json_value.kids) :
              LET l == encode_lookup(json_value.kids[i].key, entry, schema, annot)
              IN l.ok /\ Expressible(json_value.kids[i].value, l.entry, schema, annot)
    [] entry.format = BEJ_FORMAT_ARRAY ->
         /\ json_value.type = JSON_ARRAY
         /\ entry.has_name
         /\ LET n == bej_dict_stream_next(
                       bej_dict_stream_init_subset(
                         IF IsAt(entry.name) THEN annot ELSE schema,
                         entry.child_pointer, entry.child_count))
            IN n.ok /\ \A i \in 1..Len(json_value.kids) :
                         Expressible(json_value.kids[i], n.entry, schema, annot)
    [] entry.format = BEJ_FORMAT_INTEGER ->
         json_value.type = JSON_NUMBER /\ json_value.number2 % 2 = 0
    [] entry.format = BEJ_FORMAT_STRING -> json_value.type = JSON_STRING
    [] entry.format = BEJ_FORMAT_BOOLEAN -> json_value.type = JSON_BOOL
    [] entry.format = BEJ_FORMAT_NULL -> json_value.type = JSON_NULL
    [] entry.format = BEJ_FORMAT_ENUM ->
         /\ json_value.type = JSON_STRING
         /\ entry.has_name
         /\ find_by_name_loop(
              bej_dict_stream_init_subset(IF IsAt(entry.name) THEN annot ELSE schema,
                                          entry.child_pointer, entry.child_count),
              json_value.string).ok
    [] OTHER -> FALSE

\* C1: round trip.  For every JSON object whose shape the schema expresses and
\* whose keys all resolve, decoding the encoder's bytes with the same (present)
\* dictionaries returns a tree that json_compare finds equal to the object.
C1_RoundTrip ==
  (/\ DecodedAsWritten
   /\ enc.ok
   /\ ~annot_dict.null
   /\ Expressible(json_data, RootEntry, schema_dict, annot_dict))
  => dec.ok /\ json_compare(json_data, dec.json)

\* a step of the decoder hit a malformed or short SFL header or a sequence
\* number that is in no entry of the subset
HeaderFailure(event) == event.kind \in {"sfl_failure", "lookup_miss"}

\* C2: decode failure model.  When an SFL header is malformed or cut short, or
\* its sequence number misses, at any nesting depth, bej_decode_stream returns
\* failure and bej_decode_buffer returns no JSON.
C2_FailureAborts ==
  (/\ pc = "decoded"
   /\ ~dec.ub
   /\ \E i \in 1..Len(dec.log) : HeaderFailure(dec.log[i]))
  => ~dec.success /\ ~dec.ok

\* C3: decoder payload framing.  In a decode that succeeds, the value of every
\* SFL the decoder processed took exactly the SFL's declared length of input,
\* the outer SFL included.
C3_ConsumesDeclaredLength ==
  (pc = "decoded" /\ ~dec.ub /\ dec.success)
  => \A i \in 1..Len(dec.log) :
       dec.log[i].ok => dec.log[i].end - dec.log[i].start = dec.log[i].length

\* C4: the annotation dictionary is optional on decode.  A file the encoder
\* wrote without any selector-1 SFL decodes, with the schema dictionary and a
\* NULL annotation dictionary, to a JSON object.
C4_AnnotationOptional ==
  (/\ DecodedAsWritten
   /\ enc.ok
   /\ annot_dict.null
   /\ \A i \in 1..Len(enc.log) : enc.log[i].selector = 0)
  => dec.success /\ dec.ok

\* The wire format read back from the bytes alone: the SFL at pos, its payload
\* of exactly Length bytes, and for a set or an array the counted SFLs that
\* fill the payload; sfls lists the headers in the order they lie in the file.
RECURSIVE WalkSfl(_, _)
RECURSIVE WalkSfls(_, _, _)
WalkSfl(w, pos) ==
  LET h == unpack_sfl(w, pos)
      stop == h.pos + h.length
      n == unpack_nnint(w, h.pos)
      inner == WalkSfls(w, n.pos, n.value)
      header == [seq |-> h.seq, format |-> h.format, length |-> h.length, at |-> pos,
                 count |-> IF n.ok THEN n.value ELSE 0]
  IN IF ~h.ok \/ h.wide \/ stop > Len(w) THEN [ok |-> FALSE, end |-> pos, sfls |-> <<>>]
     ELSE IF h.format \in {BEJ_FORMAT_SET, BEJ_FORMAT_ARRAY}
     THEN IF ~n.ok \/ n.wide \/ n.pos > stop
          THEN [ok |-> FALSE, end |-> stop, sfls |-> <<header>>]
          ELSE [ok |-> inner.ok /\ inner.end = stop, end |-> stop,
                sfls |-> <<header>> \o inner.sfls]
     ELSE IF h.format = BEJ_FORMAT_NULL
     THEN [ok |-> h.length = 0, end |-> stop, sfls |-> <<header>>]
     ELSE [ok |-> n.ok /\ ~n.wide /\ n.pos + n.value = stop, end |-> stop,
           sfls |-> <<header>>]

WalkSfls(w, pos, count) ==
  IF count = 0 THEN [ok |-> TRUE, end |-> pos, sfls |-> <<>>]
  ELSE LET first == WalkSfl(w, pos)
           rest == WalkSfls(w, first.end, count - 1)
       IN IF ~first.ok THEN [ok |-> FALSE, end |-> first.end, sfls |-> first.sfls]
          ELSE [ok |-> rest.ok, end |-> rest.end, sfls |-> first.sfls \o rest.sfls]

\* the encoded file behind its 7-byte header
Walked == WalkSfl(enc.sink, 7)

\* C5: for every SFL header the encoder writes (the outer one, every set
\* property, every array element) the Length field is the number of bytes of
\* the payload that follows it, counts and nested SFLs included: read back by
\* their Length fields the payloads nest and fill the file exactly, and the
\* headers so found are the headers the encoder wrote.
C5_LengthIsPayloadSize ==
  Encoded =>
    /\ Walked.ok
    /\ Walked.end = Len(enc.sink)
    /\ Len(Walked.sfls) = Len(enc.log) + 1
    /\ \A i \in 1..Len(enc.log) :
         /\ Walked.sfls[i + 1].format = enc.log[i].format
         /\ Walked.sfls[i + 1].length = enc.log[i].payload_size

\* an array with two elements and a nested set with a property were encoded
C5_Witness ==
  /\ Encoded
  /\ \E i \in 1..Len(enc.log) : enc.log[i].kind = "element" /\ enc.log[i].payload_size > 0
  /\ \E i \in 1..Len(enc.log) :
       /\ enc.log[i].kind = "property" /\ enc.log[i].format = BEJ_FORMAT_SET
       /\ enc.log[i].payload_size > 2

\* the keys of the root object that resolve
ResolvedAtRoot ==
  { i \in 1..Len(json_data.kids) :
      encode_lookup(json_data.kids[i].key, RootEntry, schema_dict, annot_dict).ok }

\* C6: on success the file is the 7 bytes 00 F0 F1 F1 00 00 00, the outer SFL
\* 01 00 | 00 | Length with Length the size of everything behind it, and the
\* root payload: the count of the resolved root properties and that many
\* SFLs with their payloads; the empty object gives the 14 bytes of the
\* scenario.
C6_FileLayout ==
  Encoded =>
    /\ Len(enc.sink) >= 12
    /\ SubSeq(enc.sink, 1, 10) = <<0, 240, 241, 241, 0, 0, 0, 1, 0, 0>>
    /\ Walked.ok
    /\ Walked.end = Len(enc.sink)
    /\ Walked.sfls[1].seq = 0
    /\ Walked.sfls[1].format = 0
    /\ Walked.sfls[1].count = Cardinality(ResolvedAtRoot)
    /\ (json_data.kids = <<>>
          => enc.sink = <<0, 240, 241, 241, 0, 0, 0, 1, 0, 0, 1, 2, 1, 0>>)

\* the empty object was encoded
C6_WitnessEmpty == Encoded /\ json_data.type = JSON_OBJECT /\ json_data.kids = <<>>

\* the entry the record e of the encoder names, read again from the dictionary
\* e names
EntryOfRecord(e) ==
  bej_dict_entry_at(
    bej_dict_stream_init_subset(IF e.dict = "annot" THEN annot_dict ELSE schema_dict,
                                e.entry_at, 1))

\* C7: for every property the encoder emits, at any depth: a key that starts
\* with '@' gets selector 1 and its entry comes from the annotation
\* dictionary; any other key gets selector 0 and its entry comes from the
\* schema dictionary, searched from the parent's child pointer over the
\* parent's child count; the sequence number on the wire is
\* 2 * entry.sequence + selector, so its low bit is the selector.
C7_SelectorRouting ==
  Encoded =>
    /\ Len(Walked.sfls) = Len(enc.log) + 1
    /\ \A i \in 1..Len(enc.log) :
         enc.log[i].kind = "property" =>
           /\ IsAt(enc.log[i].key) =>
                enc.log[i].selector = 1 /\ enc.log[i].dict = "annot"
           /\ ~IsAt(enc.log[i].key) =>
                /\ enc.log[i].selector = 0 /\ enc.log[i].dict = "schema"
                /\ enc.log[i].child_ptr = enc.log[i].parent_ptr
                /\ enc.log[i].child_cnt = enc.log[i].parent_cnt
                /\ enc.log[i].entry_at >= enc.log[i].parent_ptr
                /\ enc.log[i].entry_at <
                     enc.log[i].parent_ptr
                       + BEJ_DICTIONARY_ENTRY_SIZE * enc.log[i].parent_cnt
           /\ EntryOfRecord(enc.log[i]).name = enc.log[i].key
           /\ EntryOfRecord(enc.log[i]).sequence = enc.log[i].entry_sequence
           /\ Walked.sfls[i + 1].seq = 2 * enc.log[i].entry_sequence + enc.log[i].selector
           /\ Walked.sfls[i + 1].seq % 2 = enc.log[i].selector

\* an '@' key with a nonzero entry sequence and a plain key with a nonzero
\* entry sequence were emitted in one file
C7_Witness ==
  /\ Encoded
  /\ \E i \in 1..Len(enc.log) :
       /\ enc.log[i].kind = "property" /\ IsAt(enc.log[i].key)
       /\ enc.log[i].entry_sequence > 0
  /\ \E i \in 1..Len(enc.log) :
       /\ enc.log[i].kind = "property" /\ ~IsAt(enc.log[i].key)
       /\ enc.log[i].entry_sequence > 0

\* the entry the annotation dictionary holds for key among the children of
\* its root
AnnotationEntry(key) ==
  LET root == bej_dict_stream_next(bej_dict_stream_init(annot_dict))
  IN IF annot_dict.null \/ ~root.ok THEN [ok |-> FALSE, entry |-> NoEntry]
     ELSE bej_dict_find_child_by_name(annot_dict, root.entry.child_pointer,
                                      root.entry.child_count, key)

\* C8: when "@c" (standing for "@odata.count") names an entry with sequence 5
\* of the annotation dictionary, an object holding that key is encoded with an
\* SFL of sequence value 2 * 5 + 1 = 11 for it, and decoding the file yields
\* the key with the same value.
C8_AnnotationRoundTrip ==
  ( /\ DecodedAsWritten /\ enc.ok
    /\ AnnotationEntry(NameAtC).ok
    /\ AnnotationEntry(NameAtC).entry.sequence = 5
    /\ \E i \in 1..Len(json_data.kids) : json_data.kids[i] = KV(NameAtC, JNum(1)) )
  => /\ \E i \in 1..Len(enc.log) :
          enc.log[i].key = NameAtC /\ enc.log[i].seq_with_selector = 11
     /\ dec.ok
     /\ \E j \in 1..Len(dec.json.kids) :
          dec.json.kids[j].key = NameAtC /\ json_compare(JNum(1), dec.json.kids[j].value)

\* the JSON object without its pair i
WithoutPair(json_object, i) ==
  [json_object EXCEPT !.kids = SubSeq(json_object.kids, 1, i - 1)
                               \o SubSeq(json_object.kids, i + 1, Len(json_object.kids))]

\* the sum of the counts of the sets among the headers from j on
RECURSIVE SetCounts(_, _)
SetCounts(sfls, j) ==
  IF j > Len(sfls) THEN 0
  ELSE (IF sfls[j].format = BEJ_FORMAT_SET THEN sfls[j].count ELSE 0) + SetCounts(sfls, j + 1)

\* C9: a pair whose key does not resolve leaves the encoding as it is without
\* the pair, success and bytes alike, whatever its value; the count at the
\* start of a set payload is the number of resolved properties, which is the
\* number of SFLs that follow it in the payload.
C9_UnknownKeySkipped ==
  (pc # "input" /\ ~enc.ub /\ json_data.type = JSON_OBJECT) =>
    /\ \A i \in (1..Len(json_data.kids)) \ ResolvedAtRoot :
         LET without == bej_encode_stream(WithoutPair(json_data, i), schema_dict, annot_dict)
         IN /\ without.ok = enc.ok
            /\ without.ok => without.sink = enc.sink
    /\ enc.ok =>
         /\ Walked.ok
         /\ Walked.sfls[1].count = Cardinality(ResolvedAtRoot)
         /\ SetCounts(Walked.sfls, 1)
              = Cardinality({ i \in 1..Len(enc.log) : enc.log[i].kind = "property" })

\* a file was written for an object with a resolved and an unresolved key at
\* the root, and a nested set with an unresolved key
C9_Witness ==
  /\ Encoded
  /\ json_data.type = JSON_OBJECT
  /\ ResolvedAtRoot # {}
  /\ (1..Len(json_data.kids)) \ ResolvedAtRoot # {}
  /\ \E i \in 1..Len(json_data.kids) :
       /\ json_data.kids[i].key = NameO
       /\ \E j \in 1..Len(json_data.kids[i].value.kids) :
            json_data.kids[i].value.kids[j].key = NameZ

\* some resolved property of the object, at any depth, has a value whose JSON
\* type is not the one its entry's format asks for
RECURSIVE Mistyped(_, _)
Mistyped(json_object, parent_entry) ==
  \E i \in 1..Len(json_object.kids) :
    LET l == encode_lookup(json_object.kids[i].key, parent_entry, schema_dict, annot_dict)
        v == json_object.kids[i].value
    IN l.ok /\
       CASE l.entry.format = BEJ_FORMAT_SET ->
              v.type # JSON_OBJECT \/ Mistyped(v, l.entry)
         [] l.entry.format = BEJ_FORMAT_ARRAY -> v.type # JSON_ARRAY
         [] l.entry.format = BEJ_FORMAT_INTEGER -> v.type # JSON_NUMBER
         [] l.entry.format \in {BEJ_FORMAT_STRING, BEJ_FORMAT_ENUM} -> v.type # JSON_STRING
         [] l.entry.format = BEJ_FORMAT_BOOLEAN -> v.type # JSON_BOOL
         [] l.entry.format = BEJ_FORMAT_NULL -> v.type # JSON_NULL
         [] OTHER -> TRUE

\* C10: bej_encode_stream fails when the root is not an object or when a
\* resolved property's value has a JSON type other than the one its
\* dictionary format requires (SET object, ARRAY array, INTEGER number,
\* STRING and ENUM string, BOOLEAN bool, NULL null, any other format fails).
C10_TypeChecked ==
  ( /\ pc # "input" /\ ~enc.ub
    /\ (json_data.type # JSON_OBJECT \/ Mistyped(json_data, RootEntry)) )
  => ~enc.ok

\* the least n >= 1 with v < 256^n, for v >= 0
RECURSIVE MinimalWidth(_)
MinimalWidth(v) == IF v < 256 THEN 1 ELSE 1 + MinimalWidth(v \div 256)

\* the number whose little-endian digits are bs[from..Len(bs)]
RECURSIVE DigitsValue(_, _)
DigitsValue(bs, from) ==
  IF from > Len(bs) THEN 0 ELSE bs[from] + 256 * DigitsValue(bs, from + 1)

PackedNnint == pc \in {"packed", "unpacked"} /\ unit.op = "nnint"

\* C11: pack_nnint(v) writes one length byte n and n little-endian bytes of
\* v, n the least number in 1..8 with v < 256^n (zero is 01 00), and
\* unpack_nnint reads v back from those bytes and stops right behind them.
C11_NnintRoundTrip ==
  PackedNnint =>
    /\ Len(unit.bytes) = unit.bytes[1] + 1
    /\ unit.bytes[1] \in 1..8
    /\ unit.bytes[1] = MinimalWidth(unit.value)
    /\ \A i \in 1..Len(unit.bytes) : unit.bytes[i] \in 0..255
    /\ DigitsValue(unit.bytes, 2) = unit.value
    /\ (unit.value = 0 => unit.bytes = <<1, 0>>)
    /\ pc = "unpacked" =>
         /\ unit.read.ok
         /\ unit.read.pos = Len(unit.bytes)
         /\ ~unit.read.wide => unit.read.value = unit.value

\* a three-byte number was read back from a stream with bytes behind it
C11_Witness ==
  /\ pc = "unpacked" /\ unit.op = "nnint"
  /\ unit.value = 65536 /\ unit.tail # <<>>
  /\ unit.read.ok /\ ~unit.read.wide /\ unit.read.value = 65536

\* the least n >= 1 with -2^(8n-1) <= i < 2^(8n-1)
RECURSIVE SignedWidth(_)
SignedWidth(i) == IF -128 <= i /\ i < 128 THEN 1 ELSE 1 + SignedWidth(i \div 256)

\* the two's-complement number whose little-endian bytes are bs[from..Len(bs)]
RECURSIVE SignedDigits(_, _)
SignedDigits(bs, from) ==
  IF from >= Len(bs) THEN bs[Len(bs)] - (IF bs[Len(bs)] >= 128 THEN 256 ELSE 0)
  ELSE bs[from] + 256 * SignedDigits(bs, from + 1)

\* the number a decimal text denotes
RECURSIVE DecimalValue(_, _)
DecimalValue(text, upto) ==
  IF upto = 0 THEN 0
  ELSE IF text[1] = Ascii["-"]
  THEN IF upto = 1 THEN 0 ELSE 10 * DecimalValue(text, upto - 1) - (text[upto] - Ascii["0"])
  ELSE 10 * DecimalValue(text, upto - 1) + (text[upto] - Ascii["0"])

PackedInteger == pc \in {"packed", "unpacked"} /\ unit.op = "integer"

\* C12: pack_integer_value(i) writes NNINT(n) and the n low little-endian
\* bytes of i in two's complement, n the least width in 1..8 that holds i as
\* a signed number (1 is 01 01 | 01, -1 is 01 01 | FF), and
\* unpack_integer_value prints i from that payload.
C12_IntegerWidth ==
  PackedInteger =>
    /\ SubSeq(unit.bytes, 1, 2) = <<1, SignedWidth(unit.value)>>
    /\ SignedWidth(unit.value) \in 1..8
    /\ Len(unit.bytes) = 2 + SignedWidth(unit.value)
    /\ \A i \in 3..Len(unit.bytes) : unit.bytes[i] \in 0..255
    /\ SignedDigits(unit.bytes, 3) = unit.value
    /\ (unit.value = 1 => unit.bytes = <<1, 1, 1>>)
    /\ (unit.value = -1 => unit.bytes = <<1, 1, 255>>)
    /\ pc = "unpacked" =>
         /\ unit.read.ok
         /\ unit.read.pos = Len(unit.bytes)
         /\ ~unit.read.wide =>
              /\ DecimalValue(unit.read.out, Len(unit.read.out)) = unit.value
              /\ unit.read.out = print_int64(unit.value)
              /\ Len(unit.read.out) > (IF unit.value < 0 THEN 1 ELSE 0)
              /\ (Len(unit.read.out) > 1 /\ unit.value > 0 => unit.read.out[1] # Ascii["0"])

\* a negative number of two bytes and a positive number whose top bit asks
\* for a second byte were printed back
C12_Witness ==
  /\ pc = "unpacked" /\ unit.op = "integer"
  /\ unit.value \in {-129, 128}
  /\ unit.read.ok /\ ~unit.read.wide
  /\ Len(unit.bytes) = 4

\* the payload bytes of the j-th SFL of the encoded file
PayloadOf(j) ==
  LET h == unpack_sfl(enc.sink, Walked.sfls[j].at)
  IN SubSeq(enc.sink, h.pos + 1, h.pos + h.length)

\* C13: the payload of an ENUM property is NNINT(w) followed by the NNINT of
\* the matched child's sequence, w being the byte width of the sequence
\* value: 01 01 | 01 02 for the child with sequence 2.
C13_EnumPayload ==
  Encoded =>
    \A i \in 1..Len(enc.log) :
      enc.log[i].format = BEJ_FORMAT_ENUM =>
        /\ PayloadOf(i + 1)[1] = 1
        /\ PayloadOf(i + 1)[2] = PayloadOf(i + 1)[3]
        /\ Len(PayloadOf(i + 1)) = 3 + PayloadOf(i + 1)[3]
        /\ (json_data = JObj(<<KV(NameE, JStr(StrA))>>)
              => PayloadOf(i + 1) = <<1, 1, 1, 2>>)

\* the file handed to the decoder, read back by its Length fields
WalkedWire == WalkSfl(wire, BEJ_HEADER_SIZE)

\* the decoder read a well-framed file whose SFLs are the outer one and the
\* properties of the root set, and consumed each payload in full
FlatDecode ==
  /\ pc = "decoded" /\ ~dec.ub /\ ~annot_dict.null
  /\ WalkedWire.ok /\ WalkedWire.end = Len(wire)
  /\ Len(dec.log) = 1 + WalkedWire.sfls[1].count
  /\ Len(WalkedWire.sfls) = Len(dec.log)
  /\ \A i \in 1..Len(dec.log) :
       /\ dec.log[i].ok
       /\ dec.log[i].end - dec.log[i].start = dec.log[i].length
       /\ i > 1 => dec.log[i].kind = "property" /\ dec.log[i].selector = 0

\* the entry the root property of event e resolves to has a format the
\* decoder has no case for
Unsupported(e) ==
  LET f == get_entry_by_seq(schema_dict, RootEntry.child_pointer, RootEntry.child_count,
                            e.sequence_num)
  IN f.ok /\ f.entry.format \notin
               { BEJ_FORMAT_SET, BEJ_FORMAT_ARRAY, BEJ_FORMAT_INTEGER, BEJ_FORMAT_STRING,
                 BEJ_FORMAT_BOOLEAN, BEJ_FORMAT_ENUM, BEJ_FORMAT_NULL }

\* C14: a property whose dictionary entry has a format the decoder does not
\* support is skipped over its len bytes, nothing is emitted for it, and the
\* decode succeeds with a JSON object holding the other properties.
C14_UnknownFormatSkipped ==
  (FlatDecode /\ \E i \in 2..Len(dec.log) : Unsupported(dec.log[i])) =>
    /\ dec.success
    /\ dec.ok
    /\ dec.json.type = JSON_OBJECT
    /\ Len(dec.json.kids)
         = Cardinality({ i \in 2..Len(dec.log) : ~Unsupported(dec.log[i]) })

\* C15: element i of an array is encoded against the array entry's archetype
\* child and carries the wire sequence 2 * i + selector, the selector being 1
\* exactly when the array's name begins with '@'.
C15_ElementSequence ==
  (pc = "packed" /\ unit.op = "element") =>
    /\ unit.read.ok
    /\ unit.read.log[1].format = ArchetypeOf(unit.array).format
    /\ unit.read.log[1].selector = (IF IsAt(unit.array.name) THEN 1 ELSE 0)
    /\ unit.read.log[1].seq_with_selector
         = 2 * unit.value + (IF IsAt(unit.array.name) THEN 1 ELSE 0)
    /\ unpack_sfl(unit.read.out, 0).seq = unit.read.log[1].seq_with_selector

\* The keys of the SFLs a JSON value asks for, in the order of the JSON text:
\* a resolved pair gives its key and then what its value asks for, an array
\* item gives the empty key and then what the item asks for.
RECURSIVE ExpectedKeys(_, _, _)
RECURSIVE ExpectedItems(_, _, _)
RECURSIVE ExpectedUnder(_, _)
ExpectedKeys(json_object, entry, i) ==
  IF i > Len(json_object.kids) THEN <<>>
  ELSE LET l == encode_lookup(json_object.kids[i].key, entry, schema_dict, annot_dict)
       IN (IF l.ok
           THEN <<json_object.kids[i].key>> \o ExpectedUnder(json_object.kids[i].value, l.entry)
           ELSE <<>>)
          \o ExpectedKeys(json_object, entry, i + 1)

ExpectedItems(json_array, archetype, i) ==
  IF i > Len(json_array.kids) THEN <<>>
  ELSE <<(<<>>)>> \o ExpectedUnder(json_array.kids[i], archetype)
         \o ExpectedItems(json_array, archetype, i + 1)

ExpectedUnder(json_value, entry) ==
  IF entry.format = BEJ_FORMAT_SET THEN ExpectedKeys(json_value, entry, 1)
  ELSE IF entry.format = BEJ_FORMAT_ARRAY
  THEN ExpectedItems(json_value,
                     bej_dict_stream_next(
                       bej_dict_stream_init_subset(
                         IF IsAt(entry.name) THEN annot_dict ELSE schema_dict,
                         entry.child_pointer, entry.child_count)).entry,
                     1)
  ELSE <<>>

\* the keys of a JSON tree in the order of its text, the empty key for an
\* array item
RECURSIVE KeysInOrder(_, _)
KeysInOrder(json_value, i) ==
  IF i > Len(json_value.kids) THEN <<>>
  ELSE IF json_value.type = JSON_OBJECT
  THEN <<json_value.kids[i].key>> \o KeysInOrder(json_value.kids[i].value, 1)
         \o KeysInOrder(json_value, i + 1)
  ELSE <<(<<>>)>> \o KeysInOrder(json_value.kids[i], 1) \o KeysInOrder(json_value, i + 1)

\* the keys of the SFLs the encoder wrote, in the order of writing
WrittenKeys == [i \in 1..Len(enc.log) |-> enc.log[i].key]

\* the members of s are met in t in the order they have in s
RECURSIVE InOrderWithin(_, _)
InOrderWithin(s, t) ==
  IF s = <<>> THEN TRUE
  ELSE IF t = <<>> THEN FALSE
  ELSE IF Head(s) = Head(t) THEN InOrderWithin(Tail(s), Tail(t))
  ELSE InOrderWithin(s, Tail(t))

\* C16: the SFLs of a set are written in the order of the resolved keys of
\* the JSON object and lie in the file in that order; the decoded object has
\* its keys in the order of the SFLs in the file, all of them when the
\* decoder found an entry for every SFL; array elements are written and
\* decoded in increasing index order.
C16_OrderPreserved ==
  /\ Encoded =>
       /\ WrittenKeys = ExpectedKeys(json_data, RootEntry, 1)
       /\ Len(Walked.sfls) = Len(enc.log) + 1
       /\ \A i \in 1..Len(enc.log) :
            /\ Walked.sfls[i + 1].seq = enc.log[i].seq_with_selector
            /\ Walked.sfls[i + 1].at > Walked.sfls[i].at
            /\ enc.log[i].kind = "element" =>
                 enc.log[i].entry_sequence
                   = (IF i > 1 /\ enc.log[i - 1].kind = "element"
                      THEN enc.log[i - 1].entry_sequence + 1 ELSE 0)
  /\ (DecodedAsWritten /\ enc.ok /\ dec.ok) =>
       /\ InOrderWithin(KeysInOrder(dec.json, 1), WrittenKeys)
       /\ (\A i \in 1..Len(dec.log) : dec.log[i].kind # "lookup_miss")
            => KeysInOrder(dec.json, 1) = WrittenKeys
       /\ \A i \in 1..Len(dec.json.kids) :
            dec.json.kids[i].value.type = JSON_ARRAY =>
              \E j \in 1..Len(json_data.kids) :
                /\ json_data.kids[j].key = dec.json.kids[i].key
                /\ json_data.kids[j].value.kids = dec.json.kids[i].value.kids

\* an object whose keys are not in dictionary order, one of them an array of
\* two different items, was encoded and decoded
C16_Witness ==
  /\ DecodedAsWritten /\ enc.ok /\ dec.ok
  /\ json_data = JObj(<<KV(NameA, JArr(<<JStr(StrA), JStr(StrB)>>)), KV(NameX, JNum(1))>>)
  /\ Len(dec.json.kids) = 2
  /\ dec.json.kids[1].key = NameA
  /\ dec.json.kids[1].value.kids = <<JStr(StrA), JStr(StrB)>>

\* the 10 bytes at offset o of the loaded file, read as a dictionary entry
EntryBytes(o) == SubSeq(unit.file.bytes, o + 1, o + 10)

\* C17: a cursor set by bej_dict_stream_init_subset at offset o with a count
\* c other than 0xFFFF yields at most c entries; the k-th comes from the 10
\* bytes at o + 10(k-1), which lie inside the buffer, and holds what those
\* bytes say.
C17_SubsetBounds ==
  (pc \in {"cursor", "drained"} /\ unit.count # BEJ_CHILD_COUNT_WILDCARD) =>
    /\ Len(unit.yielded) <= unit.count
    /\ unit.s.index = unit.offset + 10 * Len(unit.yielded)
    /\ \A k \in 1..Len(unit.yielded) :
         /\ unit.yielded[k].at = unit.offset + 10 * (k - 1)
         /\ unit.yielded[k].at + 10 <= Len(unit.file.bytes)
         /\ unit.yielded[k].format = EntryBytes(unit.yielded[k].at)[1] \div 16
         /\ unit.yielded[k].flags = EntryBytes(unit.yielded[k].at)[1] % 16
         /\ unit.yielded[k].sequence
              = EntryBytes(unit.yielded[k].at)[2] + 256 * EntryBytes(unit.yielded[k].at)[3]
         /\ unit.yielded[k].child_pointer
              = EntryBytes(unit.yielded[k].at)[4] + 256 * EntryBytes(unit.yielded[k].at)[5]
         /\ unit.yielded[k].child_count
              = EntryBytes(unit.yielded[k].at)[6] + 256 * EntryBytes(unit.yielded[k].at)[7]

\* a cursor asked for more entries than the buffer holds behind its offset
\* stopped inside the buffer, and a cursor with room stopped at its count
C17_Witness ==
  /\ pc = "drained"
  /\ \/ unit.count = 20 /\ Len(unit.yielded) \in 1..19
     \/ unit.count = 2 /\ Len(unit.yielded) = 2
          /\ unit.offset + 30 <= Len(unit.file.bytes)

\* C18: loading returns a dictionary exactly when the file has at least 12
\* bytes and 12 + entry_count * 10, entry_count being the 16-bit field at
\* offset 2, does not exceed the file size.
C18_LoadValidatesHeader ==
  (pc # "input" /\ unit.op = "dictionary" /\ unit.file.present) =>
    (~unit.dict.null <=>
       /\ Len(unit.file.bytes) >= 12
       /\ 12 + 10 * (unit.file.bytes[3] + 256 * unit.file.bytes[4]) <= Len(unit.file.bytes))

\* the names of the children of a schema entry, read entry by entry
ChildNames(entry) ==
  { bej_dict_entry_at([bytes |-> schema_dict.bytes, size |-> schema_dict.size,
                       index |-> entry.child_pointer + 10 * k]).name :
      k \in 0..(entry.child_count - 1) }

\* some property of the object, or of a set nested in it, resolves to an ENUM
\* entry and holds a string that names none of the entry's children
RECURSIVE UnknownEnumIn(_, _)
UnknownEnumIn(json_object, parent_entry) ==
  \E i \in 1..Len(json_object.kids) :
    LET l == encode_lookup(json_object.kids[i].key, parent_entry, schema_dict, annot_dict)
        v == json_object.kids[i].value
    IN /\ l.ok
       /\ \/ /\ l.entry.format = BEJ_FORMAT_ENUM
             /\ v.type = JSON_STRING
             /\ v.string \notin ChildNames(l.entry)
          \/ /\ l.entry.format = BEJ_FORMAT_SET
             /\ v.type = JSON_OBJECT
             /\ UnknownEnumIn(v, l.entry)

\* C19: when a property resolves to an ENUM entry and its string is the name
\* of none of the entry's children, bej_encode_stream returns failure and the
\* output holds the 7 header bytes only: no SFL of the property, and no outer
\* SFL, is written.
C19_UnknownEnumFails ==
  (pc # "input" /\ unit = NoUnit /\ ~enc.ub /\ json_data.type = JSON_OBJECT
     /\ UnknownEnumIn(json_data, RootEntry)) =>
    /\ ~enc.ok
    /\ enc.sink = BEJ_HEADER
    /\ enc.log = <<>>

\* the unknown enum string came behind a property that encodes well
C19_Witness ==
  /\ pc = "encoded"
  /\ json_data = JObj(<<KV(NameS, JStr(StrA)), KV(NameE, JStr(NameZ))>>)
  /\ ~enc.ok
  /\ enc.sink = BEJ_HEADER

\* the offsets 12, 22, 32, ... of the annotation dictionary's entries that
\* carry the name key, its header giving the number of entries
AnnotOffsetsNamed(key) ==
  { o \in { BEJ_OFFSET_ENTRIES_START + 10 * k :
              k \in 0..(read_u16(annot_dict.bytes, BEJ_OFFSET_ENTRY_COUNT) - 1) } :
      /\ o + 10 <= annot_dict.size
      /\ bej_dict_entry_at([bytes |-> annot_dict.bytes, size |-> annot_dict.size,
                            index |-> o]).has_name
      /\ bej_dict_entry_at([bytes |-> annot_dict.bytes, size |-> annot_dict.size,
                            index |-> o]).name = key }

\* C20: a key beginning with '@' is looked up among the annotation
\* dictionary's entries at offsets 12, 22, 32, ...: when the key is the name
\* of one of them, the scan starts at offset 12 and an SFL is written for the
\* key from the first entry of that name.
C20_AnnotationLookupRange ==
  (Encoded /\ unit = NoUnit /\ ~annot_dict.null /\ json_data.type = JSON_OBJECT) =>
    \A i \in 1..Len(json_data.kids) :
      (IsAt(json_data.kids[i].key) /\ AnnotOffsetsNamed(json_data.kids[i].key) # {}) =>
        \E j \in 1..Len(enc.log) :
          /\ enc.log[j].kind = "property"
          /\ enc.log[j].key = json_data.kids[i].key
          /\ enc.log[j].dict = "annot"
          /\ enc.log[j].child_ptr = BEJ_OFFSET_ENTRIES_START
          /\ \A o \in AnnotOffsetsNamed(json_data.kids[i].key) : enc.log[j].entry_at <= o
          /\ enc.log[j].entry_at \in AnnotOffsetsNamed(json_data.kids[i].key)

\* the offsets of the entries of the dictionary's entry table, 12, 22, ...,
\* as many as its header declares
TableOffsets(dict) ==
  { o \in { BEJ_OFFSET_ENTRIES_START + 10 * k :
              k \in 0..(read_u16(dict.bytes, BEJ_OFFSET_ENTRY_COUNT) - 1) } :
      o + 10 <= dict.size }

TableEntry(dict, o) ==
  bej_dict_entry_at([bytes |-> dict.bytes, size |-> dict.size, index |-> o])

\* C21: the lookup made for an SFL with selector 1 finds the entry with the
\* requested sequence wherever it lies in the entry table of the annotation
\* dictionary: when some entry of the table has the sequence, the lookup
\* succeeds and returns an entry of the table with that sequence.
C21_GlobalAnnotationLookup ==
  (pc = "looked" /\ unit.op = "lookup"
     /\ \E o \in TableOffsets(unit.dict) : TableEntry(unit.dict, o).sequence = unit.seq) =>
    /\ unit.read.ok
    /\ unit.read.entry.sequence = unit.seq
    /\ unit.read.entry.at \in TableOffsets(unit.dict)

\* the entry the decoder resolves for the root property of event e
RootEntryOf(e) ==
  get_entry_by_seq(schema_dict, RootEntry.child_pointer, RootEntry.child_count,
                   e.sequence_num)

\* the decoder read the outer SFL and, behind it, only properties of the root
\* set that resolve to entries without children of their own
ScalarDecode ==
  /\ pc = "decoded" /\ ~dec.ub /\ ~annot_dict.null
  /\ Len(dec.log) >= 2
  /\ \A i \in 2..Len(dec.log) :
       /\ dec.log[i].kind = "property" /\ dec.log[i].selector = 0
       /\ RootEntryOf(dec.log[i]).ok
       /\ RootEntryOf(dec.log[i]).entry.format \notin {BEJ_FORMAT_SET, BEJ_FORMAT_ARRAY}

\* C22: when the format code in the SFL header of a property differs from
\* the format of the dictionary entry resolved for its sequence number, the
\* decode aborts and returns no JSON.
C22_FormatAgreement ==
  (ScalarDecode /\ \E i \in 2..Len(dec.log) :
                     dec.log[i].format # RootEntryOf(dec.log[i]).entry.format) =>
    ~dec.ok

\* the little-endian value of bytes i + 1 .. n + 1 of the stream, the bytes
\* behind the length byte being bytes 2 .. n + 1
RECURSIVE ValueBehind(_, _, _)
ValueBehind(bytes, i, n) ==
  IF i > n THEN 0 ELSE bytes[i + 1] + 256 * ValueBehind(bytes, i + 1, n)

\* C23: unpack_nnint fails when the length byte L is greater than 8, when L
\* is 0, and when fewer than L bytes follow; otherwise it returns the
\* little-endian value of the L bytes and leaves the stream behind them.
C23_NnintRejectsMalformed ==
  (pc = "unpacked" /\ unit.op = "stream") =>
    /\ unit.read.ok <=> /\ Len(unit.bytes) >= 1
                        /\ unit.bytes[1] \in 1..8
                        /\ Len(unit.bytes) >= 1 + unit.bytes[1]
    /\ unit.read.ok => /\ unit.read.value = ValueBehind(unit.bytes, 1, unit.bytes[1])
                       /\ unit.read.pos = 1 + unit.bytes[1]

\* the object handed to the encoder holds one property, the STRING property
\* S of the schema, with a JSON string as its value
OneString ==
  /\ json_data.type = JSON_OBJECT
  /\ Len(json_data.kids) = 1
  /\ json_data.kids[1].key = NameS
  /\ json_data.kids[1].value.type = JSON_STRING

\* C24: the payload written for a JSON string s is NNINT(strlen(s) + 1), the
\* bytes of s and a NUL, and decoding the file of a set holding that property
\* returns a JSON string equal to s, for the empty string and for a string
\* holding a double quote as well.
C24_StringRoundTrip ==
  (DecodedAsWritten /\ enc.ok /\ ~annot_dict.null /\ OneString) =>
    /\ Len(enc.log) = 1
    /\ enc.log[1].format = BEJ_FORMAT_STRING
    /\ PayloadOf(2) = pack_nnint(Len(json_data.kids[1].value.string) + 1)
                        \o json_data.kids[1].value.string \o <<0>>
    /\ dec.ok
    /\ dec.json.type = JSON_OBJECT
    /\ Len(dec.json.kids) = 1
    /\ dec.json.kids[1].key = NameS
    /\ dec.json.kids[1].value.type = JSON_STRING
    /\ dec.json.kids[1].value.string = json_data.kids[1].value.string

\* The calls of a trace from call i on, read against the stack of the active
\* frames, each with the number of scratch files it holds: a frame opens a
\* file only when it holds none, closes only a file it holds, and returns
\* holding none; at the end no frame is left.
RECURSIVE ScratchDiscipline(_, _, _)
ScratchDiscipline(trace, i, frames) ==
  IF i > Len(trace) THEN frames = <<>>
  ELSE CASE trace[i] = "enter" -> ScratchDiscipline(trace, i + 1, <<0>> \o frames)
         [] trace[i] = "tmpfile" ->
              /\ frames # <<>> /\ Head(frames) = 0
              /\ ScratchDiscipline(trace, i + 1, <<1>> \o Tail(frames))
         [] trace[i] = "fclose" ->
              /\ frames # <<>> /\ Head(frames) = 1
              /\ ScratchDiscipline(trace, i + 1, <<0>> \o Tail(frames))
         [] trace[i] = "return" ->
              /\ frames # <<>> /\ Head(frames) = 0
              /\ ScratchDiscipline(trace, i + 1, Tail(frames))
         [] OTHER -> FALSE

\* C25: every frame of the encoder (bej_encode_stream, encode_value) holds at
\* most one scratch file and has closed it when it returns, whether the call
\* succeeds or fails; when bej_encode_stream has returned no scratch file is
\* open.
C25_ScratchDiscipline ==
  (pc # "input" /\ unit = NoUnit /\ ~enc.ub) =>
    /\ Len(enc.tmp) >= 2
    /\ ScratchDiscipline(enc.tmp, 1, <<>>)
    /\ Cardinality({ i \in 1..Len(enc.tmp) : enc.tmp[i] = "tmpfile" })
         = Cardinality({ i \in 1..Len(enc.tmp) : enc.tmp[i] = "fclose" })

\* an encoding failed three frames deep, behind a property that was written
C25_Witness ==
  /\ pc = "encoded" /\ ~enc.ok /\ ~enc.ub
  /\ json_data \in NestedFailures
  /\ Cardinality({ i \in 1..Len(enc.tmp) : enc.tmp[i] = "tmpfile" }) >= 4
  /\ \E i \in 1..(Len(enc.tmp) - 2) :
       enc.tmp[i] = "tmpfile" /\ enc.tmp[i + 1] = "enter" /\ enc.tmp[i + 2] = "tmpfile"

\* C26: a call of bej_encode_stream that returns failure has written to the
\* output stream the 7 bytes of the file header and nothing else (nothing at
\* all when it refused its arguments): no byte of an SFL header or of a
\* payload reaches the sink, at whatever depth the failure occurred.
C26_NoPartialEncoding ==
  (pc # "input" /\ unit = NoUnit /\ ~enc.ub /\ ~enc.ok) =>
    /\ enc.sink = (IF schema_dict.null THEN <<>> ELSE BEJ_HEADER)
    /\ wire = enc.sink
    /\ enc.log = <<>>

\* the second item of an array failed after the count and the first item had
\* been written to the scratch files of the frames above
C26_Witness ==
  /\ pc = "encoded" /\ ~enc.ok /\ ~enc.ub
  /\ json_data = JObj(<<KV(NameA, JArr(<<JStr(StrA), JNum(1)>>))>>)
  /\ enc.sink = BEJ_HEADER

\* the ways of pairing the members of two objects of n members each
Pairings(n) == { f \in [1..n -> 1..n] : \A i, j \in 1..n : f[i] = f[j] => i = j }

\* a and b are the same JSON value up to the order of the members of objects
RECURSIVE SameUpToKeyOrder(_, _)
SameUpToKeyOrder(a, b) ==
  /\ a.type = b.type
  /\ CASE a.type = JSON_STRING -> a.string = b.string
       [] a.type = JSON_NUMBER -> a.number2 = b.number2
       [] a.type = JSON_BOOL -> a.boolean = b.boolean
       [] a.type = JSON_ARRAY ->
            /\ Len(a.kids) = Len(b.kids)
            /\ \A i \in 1..Len(a.kids) : SameUpToKeyOrder(a.kids[i], b.kids[i])
       [] a.type = JSON_OBJECT ->
            /\ Len(a.kids) = Len(b.kids)
            /\ \E f \in Pairings(Len(a.kids)) :
                 \A i \in 1..Len(a.kids) :
                   /\ a.kids[i].key = b.kids[f[i]].key
                   /\ SameUpToKeyOrder(a.kids[i].value, b.kids[f[i]].value)
       [] OTHER -> TRUE

\* C27: json_compare(a, b) is true exactly when a and b are the same value up
\* to the order of object keys, and json_compare(b, a) gives the same answer,
\* for objects with repeated keys as well.
C27_CompareSymmetric ==
  (pc = "compared_back" /\ unit.op = "compare") =>
    /\ unit.read = SameUpToKeyOrder(unit.a, unit.b)
    /\ unit.back = unit.read

\* C28: whenever the encoder or the decoder reads the first character of an
\* entry's name to choose the dictionary of its children, the entry has a
\* name.  Reading name[0] of an entry without a name is the only undefined
\* behaviour the two calls can run into on the inputs of the model, so the
\* claim is that neither call runs into any, for a dictionary whose array
\* element archetype has name length 0 as well.
C28_NamePresent ==
  (unit = NoUnit) => (~enc.ub /\ ~dec.ub)

\* the entries a cursor can yield from offset o of a buffer of the given size
RoomBehind(size, o) == IF o + 10 > size THEN 0 ELSE (size - o) \div 10

C30_DictionaryAgreement ==
  (pc = "decoded" /\ unit = NoUnit /\ enc.ok /\ ~enc.ub /\ ~dec.ub) =>
    \A i \in 1..Len(enc.log) :
      (enc.log[i].kind = "property" /\ i + 1 <= Len(dec.log)
         /\ dec.log[i + 1].kind \in {"property", "lookup_miss"}) =>
        /\ dec.log[i + 1].selector = enc.log[i].selector
        /\ dec.log[i + 1].dict = enc.log[i].dict

====
